---------------------------- MODULE Spec2Model ----------------------------
(***************************************************************************)
(* Model of the risk-assessment service of Opensanction_api:               *)
(*   services/risk_service.py  (RiskService: the fan-out coordinator, the  *)
(*                              score aggregation, the response builder)   *)
(*   utils/cache.py            (CacheManager.get / set / delete)           *)
(*   services/ai_service.py    (AIService.summarize_search_results, as far *)
(*                              as its result shape and failures go)       *)
(*                                                                         *)
(* Numbers.  Scores are integers on the 0..100 scale.  Python floats are   *)
(* modelled by exact rationals (numerator, denominator); round() is        *)
(* Python 3's round-half-to-even on that exact value.  A NaN is carried as *)
(* a flag.  Confidences are kept in hundredths (0.7 is 70, a raw match     *)
(* confidence of 96 is 9600).                                              *)
(***************************************************************************)
EXTENDS Integers, Sequences, FiniteSets, TLC

(***************************************************************************)
(* Bounds of the model                                                     *)
(***************************************************************************)
MaxRequests == 2
MaxTime == 2

(***************************************************************************)
(* Program constants                                                       *)
(***************************************************************************)
CacheTTL == 2
FloorPerfect == 80
FloorHigh == 70
ConfPerfect == 95
ConfHigh == 85
EscalateHigh == 80
EscalateMedium == 60
RelationshipIncrement == 5
ComplexRelationships == 2

Max(a, b) == IF a >= b THEN a ELSE b
Min(a, b) == IF a <= b THEN a ELSE b

(***************************************************************************)
(* Entities.  search_entities is a dict filled person first, company       *)
(* second, so every loop over it visits the entities in this order.        *)
(***************************************************************************)
EntityOrder == <<"person", "company">>
Ent == {"person", "company"}

NoPerson == [present |-> FALSE, name |-> "", email |-> "", phone |-> "", country |-> ""]
NoCompany == [present |-> FALSE, name |-> "", registration_number |-> "", country |-> "",
              directors |-> <<>>]

prepare_search_entities(validated_data) ==
    SelectSeq(EntityOrder, LAMBDA e : validated_data[e].present)

(***************************************************************************)
(* Provider results.  A dict is a record; a key the dict lacks is given    *)
(* the default the readers pass to .get().                                 *)
(***************************************************************************)
NeutralSanctions ==
    [matched |-> FALSE, highest_confidence |-> 0, risk_score |-> 0, matches |-> <<>>,
     status |-> "neutral"]
NeutralWeb ==
    [results |-> 0, risk_indicators |-> <<>>, risk_score |-> 0, status |-> "neutral"]
\* ai_summary: numeric top-level entries are risk_score and confidence;
\* dict_entries counts the dict-valued top-level entries (detailed_analysis).
AIFailedSummary ==
    [risk_score |-> 0, nan |-> FALSE, confidence10 |-> 0, key_findings |-> <<>>,
     dict_entries |-> 0, ai_provider |-> "failed"]
AINoResults ==
    [risk_score |-> 0, nan |-> FALSE, confidence10 |-> 1, key_findings |-> <<>>,
     dict_entries |-> 0, ai_provider |-> "Fallback Analysis"]


(***************************************************************************)
(* RiskService._get_risk_level                                             *)
(***************************************************************************)
get_risk_level(risk_score) ==
    IF risk_score >= 75 THEN "very_high"
    ELSE IF risk_score >= 60 THEN "high"
    ELSE IF risk_score >= 40 THEN "medium"
    ELSE IF risk_score >= 25 THEN "low"
    ELSE "very_low"

\* the floor assigned in place of the provider's score, whatever that score is
floored_base_score_replace(result) ==
    IF result.matched /\ result.highest_confidence >= ConfPerfect THEN FloorPerfect
    ELSE IF result.matched /\ result.highest_confidence >= ConfHigh THEN FloorHigh
    ELSE result.risk_score

\* the floors applied whether or not the result is a match
floored_base_score_unmatched(result) ==
    IF result.highest_confidence >= ConfPerfect /\ result.risk_score < FloorPerfect
      THEN FloorPerfect
    ELSE IF result.highest_confidence >= ConfHigh /\ result.risk_score < FloorHigh
      THEN FloorHigh
    ELSE result.risk_score

(***************************************************************************)
(* RiskService._calculate_risk_score, the sanctions loop (lines 248-265).  *)
(* floored_base_score is the value of base_score after the if/elif of one  *)
(* entity; sanctions_component folds max() over the entities, from 0.      *)
(***************************************************************************)
floored_base_score(result) ==
    LET base_score == result.risk_score
        highest_confidence == result.highest_confidence
        matched == result.matched
    IN  IF matched /\ highest_confidence >= ConfPerfect /\ base_score < FloorPerfect
          THEN Max(base_score, FloorPerfect)
        ELSE IF matched /\ highest_confidence >= ConfHigh /\ base_score < FloorHigh
          THEN Max(base_score, FloorHigh)
        ELSE base_score

RECURSIVE sanctions_fold(_, _, _)
sanctions_fold(sanctions_results, keys, acc) ==
    IF keys = <<>> THEN acc
    ELSE sanctions_fold(sanctions_results, Tail(keys),
                        Max(acc, floored_base_score(sanctions_results[Head(keys)])))

sanctions_component(sanctions_results, keys) == sanctions_fold(sanctions_results, keys, 0)

(***************************************************************************)
(* aggregate_scores (lines 229-246) applied to web_results: the mean of    *)
(* the entities' risk_score, as the rational num/den.                      *)
(***************************************************************************)
RECURSIVE web_total(_, _)
web_total(web_results, keys) ==
    IF keys = <<>> THEN 0
    ELSE web_results[Head(keys)].risk_score + web_total(web_results, Tail(keys))

web_component(web_results, keys) ==
    IF Len(keys) > 0 THEN [num |-> web_total(web_results, keys), den |-> Len(keys)]
    ELSE [num |-> 0, den |-> 1]

(***************************************************************************)
(* aggregate_scores applied to the ai_summary dict itself (line 268): it   *)
(* walks the TOP-LEVEL entries of the summary, adds every numeric one      *)
(* (risk_score and confidence) and, for every dict-valued one, that dict's *)
(* risk_score (absent, so 0), and divides by the number of entries added.  *)
(* In tenths: num / (10 * count).                                          *)
(***************************************************************************)
ai_component(ai_results) ==
    [num |-> 10 * ai_results.risk_score + ai_results.confidence10,
     den |-> 10 * (2 + ai_results.dict_entries),
     nan |-> ai_results.nan]

(***************************************************************************)
(* relationship_score (line 269): 5 per entry of the key                   *)
(* 'created_relationships' of relationship_results, [] when it is absent.  *)
(***************************************************************************)
relationship_component(relationship_results) ==
    Len(relationship_results.created_relationships) * RelationshipIncrement

\* the profiles handed out in the opposite order: the sanctions weight falls
\* as the sanctions score passes the thresholds
select_weights_swapped(sanctions_score) ==
    IF sanctions_score >= EscalateHigh
      THEN [sanctions |-> 40, web_intelligence |-> 30, ai_analysis |-> 20, relationships |-> 10]
    ELSE IF sanctions_score >= EscalateMedium
      THEN [sanctions |-> 70, web_intelligence |-> 20, ai_analysis |-> 7, relationships |-> 3]
    ELSE [sanctions |-> 80, web_intelligence |-> 15, ai_analysis |-> 3, relationships |-> 2]

\* the escalation thresholds compared with > instead of >=
select_weights_strict(sanctions_score) ==
    IF sanctions_score > EscalateHigh
      THEN [sanctions |-> 80, web_intelligence |-> 15, ai_analysis |-> 3, relationships |-> 2]
    ELSE IF sanctions_score > EscalateMedium
      THEN [sanctions |-> 70, web_intelligence |-> 20, ai_analysis |-> 7, relationships |-> 3]
    ELSE [sanctions |-> 40, web_intelligence |-> 30, ai_analysis |-> 20, relationships |-> 10]

(***************************************************************************)
(* The weight profiles (lines 271-296), in hundredths.  total_weight is    *)
(* sum(weights.values()); the normalised weight of a source is             *)
(* weights[source] / total_weight.                                         *)
(***************************************************************************)
select_weights(sanctions_score) ==
    IF sanctions_score >= EscalateHigh
      THEN [sanctions |-> 80, web_intelligence |-> 15, ai_analysis |-> 3, relationships |-> 2]
    ELSE IF sanctions_score >= EscalateMedium
      THEN [sanctions |-> 70, web_intelligence |-> 20, ai_analysis |-> 7, relationships |-> 3]
    ELSE [sanctions |-> 40, web_intelligence |-> 30, ai_analysis |-> 20, relationships |-> 10]

total_weight(weights) ==
    weights.sanctions + weights.web_intelligence + weights.ai_analysis + weights.relationships

(***************************************************************************)
(* Python 3 round() of the rational num/den (den > 0, num >= 0): to the    *)
(* nearest integer, a tie to the even one.                                 *)
(***************************************************************************)
py_round(num, den) ==
    LET q == num \div den
        r == num % den
    IN  IF 2 * r < den THEN q
        ELSE IF 2 * r > den THEN q + 1
        ELSE IF q % 2 = 0 THEN q ELSE q + 1

\* the weighted sum divided by the weights of the contributing sources only
final_score_present_only(sanctions_score, web, ai, relationship_score, weights) ==
    [num |-> sanctions_score * weights.sanctions * web.den * ai.den
             + web.num * weights.web_intelligence * ai.den
             + ai.num * weights.ai_analysis * web.den
             + relationship_score * weights.relationships * web.den * ai.den,
     den |-> ( (IF sanctions_score > 0 THEN weights.sanctions ELSE 0)
             + (IF web.num > 0 THEN weights.web_intelligence ELSE 0)
             + (IF ai.num > 0 THEN weights.ai_analysis ELSE 0)
             + (IF relationship_score > 0 THEN weights.relationships ELSE 0)
             + (IF sanctions_score + web.num + ai.num + relationship_score = 0
                  THEN total_weight(weights) ELSE 0) ) * web.den * ai.den]

\* final_score (lines 299-304) as a rational over the common denominator
\* total_weight * web.den * ai.den.
final_score(sanctions_score, web, ai, relationship_score, weights) ==
    [num |-> sanctions_score * weights.sanctions * web.den * ai.den
             + web.num * weights.web_intelligence * ai.den
             + ai.num * weights.ai_analysis * web.den
             + relationship_score * weights.relationships * web.den * ai.den,
     den |-> total_weight(weights) * web.den * ai.den]

clamp_score(final) == Min(Max(py_round(final.num, final.den), 0), 100)

(***************************************************************************)
(* RiskService._collect_risk_factors (lines 342-406): one factor per       *)
(* sanctions match, per web risk indicator, per AI key finding, in that    *)
(* order, and one 'complex_relationships' factor when the key              *)
(* 'created_relationships' holds more than 2 entries.  Nothing is removed  *)
(* or merged afterwards.                                                   *)
(***************************************************************************)
sanctions_factor(match) ==
    [source |-> "sanctions", type |-> "sanctions_match",
     description |-> <<"Sanctions match: ", match.name>>,
     confidence100 |-> 100 * match.confidence, severity |-> "high"]

web_factor(indicator) ==
    [source |-> "web_search", type |-> "web_indicator", description |-> <<indicator>>,
     confidence100 |-> 70, severity |-> "medium"]

ai_factor(finding, ai_results) ==
    [source |-> "ai_analysis", type |-> "ai_finding", description |-> <<finding>>,
     confidence100 |-> 10 * ai_results.confidence10, severity |-> "medium"]

relationship_factor(n) ==
    [source |-> "relationships", type |-> "complex_relationships",
     description |-> <<"Multiple entity relationships detected", ToString(n)>>,
     confidence100 |-> 80, severity |-> "medium"]

RECURSIVE sanctions_factors(_, _)
sanctions_factors(sanctions_results, keys) ==
    IF keys = <<>> THEN <<>>
    ELSE [i \in 1..Len(sanctions_results[Head(keys)].matches) |->
             sanctions_factor(sanctions_results[Head(keys)].matches[i])]
         \o sanctions_factors(sanctions_results, Tail(keys))

RECURSIVE web_factors(_, _)
web_factors(web_results, keys) ==
    IF keys = <<>> THEN <<>>
    ELSE [i \in 1..Len(web_results[Head(keys)].risk_indicators) |->
             web_factor(web_results[Head(keys)].risk_indicators[i])]
         \o web_factors(web_results, Tail(keys))

collect_risk_factors(sanctions_results, web_results, ai_results, relationship_results, keys) ==
    sanctions_factors(sanctions_results, keys)
    \o web_factors(web_results, keys)
    \o [i \in 1..Len(ai_results.key_findings) |-> ai_factor(ai_results.key_findings[i], ai_results)]
    \o (IF Len(relationship_results.created_relationships) > ComplexRelationships
          THEN <<relationship_factor(Len(relationship_results.created_relationships))>>
          ELSE <<>>)

(***************************************************************************)
(* RiskService._calculate_risk_score (lines 223-340).  A NaN among the     *)
(* summed values makes final_score NaN, round() raises ValueError, and the *)
(* except branch (lines 327-340) returns the error default.                *)
(***************************************************************************)
ZeroRational == [num |-> 0, den |-> 1]

error_default ==
    [risk_score |-> 0, risk_level |-> "unknown", risk_factors |-> <<>>,
     component_scores |-> [sanctions |-> 0, web_intelligence |-> ZeroRational,
                           ai_analysis |-> ZeroRational, relationships |-> 0],
     weights |-> select_weights(0), error |-> TRUE]

calculate_risk_score(sanctions_results, web_results, ai_results, relationship_results, keys) ==
    LET sanctions_score == sanctions_component(sanctions_results, keys)
        web_score == web_component(web_results, keys)
        ai_score == ai_component(ai_results)
        relationship_score == relationship_component(relationship_results)
        weights == select_weights(sanctions_score)
        final == final_score(sanctions_score, web_score, ai_score, relationship_score, weights)
        risk_score == clamp_score(final)
    IN  IF ai_score.nan THEN error_default
        ELSE [risk_score |-> risk_score,
              risk_level |-> get_risk_level(risk_score),
              risk_factors |-> collect_risk_factors(sanctions_results, web_results, ai_results,
                                                    relationship_results, keys),
              component_scores |-> [sanctions |-> sanctions_score,
                                    web_intelligence |-> web_score,
                                    ai_analysis |-> [num |-> ai_score.num, den |-> ai_score.den],
                                    relationships |-> relationship_score],
              weights |-> weights, error |-> FALSE]

(***************************************************************************)
(* RiskService._generate_cache_key (lines 868-892): the non-empty fields,  *)
(* person first, joined by '|' and hashed.  The joined string is kept as   *)
(* the sequence of its parts; hash() is taken injective on it within one   *)
(* interpreter process.                                                    *)
(***************************************************************************)
NonEmpty(parts) == SelectSeq(parts, LAMBDA x : x # "")

generate_cache_key(entity_data) ==
    LET person == entity_data.person
        company == entity_data.company
        person_parts == IF person.present
                          THEN <<person.name, person.email, person.phone, person.country>>
                          ELSE <<>>
        company_parts == IF company.present
                           THEN <<company.name, company.registration_number, company.country>>
                           ELSE <<>>
    IN  NonEmpty(person_parts \o company_parts)

(***************************************************************************)
(* Requests the callers send (validated upstream).                         *)
(***************************************************************************)
Alice == [present |-> TRUE, name |-> "alice", email |-> "", phone |-> "", country |-> ""]
Acme == [present |-> TRUE, name |-> "acme", registration_number |-> "", country |-> "",
         directors |-> <<[director_id |-> "d1", name |-> "dora"]>>]

Requests ==
    { [person |-> Alice, company |-> NoCompany],
      [person |-> Alice, company |-> Acme] }

CacheKeys == { generate_cache_key(r) : r \in Requests }

(***************************************************************************)
(* utils/cache.py.  The store maps a key to an entry; Redis drops an entry *)
(* when its expiry time is reached.  `read` and `write` are what the store *)
(* does on this call: "ok", or "redis_error" (it raises redis.RedisError), *)
(* or, for a read, "undecodable" (the stored text is not JSON).            *)
(***************************************************************************)
NoResponse ==
    [risk_score |-> 0, risk_level |-> "none", risk_factors |-> <<>>,
     sanctions_status |-> "none", web_status |-> "none", performance_mode |-> "none",
     cached_at |-> -1]
NoEntry == [present |-> FALSE, data |-> NoResponse, cached_at |-> 0, expires_at |-> 0]

ReadOutcomes == {"ok", "redis_error", "undecodable"}
WriteOutcomes == {"ok", "redis_error"}

Visible(entry, t) == entry.present /\ t < entry.expires_at

\* CacheManager.get without its lookup: every read is a miss
cache_get_forgetful(client, read, entry, t) ==
    [kind |-> "miss", data |-> NoResponse, delete |-> FALSE]

\* CacheManager.get without its except clause: a store error leaves get()
cache_get_unguarded(client, read, entry, t) ==
    IF ~client THEN [kind |-> "miss", data |-> NoResponse, delete |-> FALSE]
    ELSE IF read = "redis_error" THEN [kind |-> "raise", data |-> NoResponse, delete |-> FALSE]
    ELSE IF ~Visible(entry, t) THEN [kind |-> "miss", data |-> NoResponse, delete |-> FALSE]
    ELSE IF read = "undecodable" THEN [kind |-> "raise", data |-> NoResponse, delete |-> FALSE]
    ELSE [kind |-> "hit", data |-> entry.data, delete |-> FALSE]

\* CacheManager.get (lines 51-83): [kind, data, delete]
cache_get(client, read, entry, t) ==
    IF ~client THEN [kind |-> "miss", data |-> NoResponse, delete |-> FALSE]
    ELSE IF read = "redis_error" THEN [kind |-> "miss", data |-> NoResponse, delete |-> FALSE]
    ELSE IF ~Visible(entry, t) THEN [kind |-> "miss", data |-> NoResponse, delete |-> FALSE]
    ELSE IF read = "undecodable" THEN [kind |-> "miss", data |-> NoResponse, delete |-> FALSE]
    ELSE IF t - entry.cached_at > CacheTTL
      THEN [kind |-> "miss", data |-> NoResponse, delete |-> TRUE]
    ELSE [kind |-> "hit", data |-> entry.data, delete |-> FALSE]

\* a write that stores the verdict without its risk_factors
cache_set_truncated(client, write, value, ttl, t) ==
    IF ~client THEN [kind |-> "false", stored |-> FALSE, entry |-> NoEntry]
    ELSE IF write = "redis_error" THEN [kind |-> "raise", stored |-> FALSE, entry |-> NoEntry]
    ELSE [kind |-> "true", stored |-> TRUE,
          entry |-> [present |-> TRUE,
                     data |-> [value EXCEPT !.cached_at = t, !.risk_factors = <<>>],
                     cached_at |-> t, expires_at |-> t + ttl]]

\* a write that keeps the aggregator's error default out of the store
cache_set_sound_only(client, write, value, ttl, t) ==
    IF ~client THEN [kind |-> "false", stored |-> FALSE, entry |-> NoEntry]
    ELSE IF write = "redis_error" THEN [kind |-> "raise", stored |-> FALSE, entry |-> NoEntry]
    ELSE IF value.risk_level = "unknown"
      THEN [kind |-> "true", stored |-> FALSE, entry |-> NoEntry]
    ELSE [kind |-> "true", stored |-> TRUE,
          entry |-> [present |-> TRUE, data |-> [value EXCEPT !.cached_at = t],
                     cached_at |-> t, expires_at |-> t + ttl]]

\* CacheManager.set (lines 85-127): [kind, entry].  The except clause names
\* json.JSONEncodeError, which the json module does not define: when the
\* try body raises, evaluating the clause raises AttributeError instead of
\* catching, and set() propagates it.
cache_set(client, write, value, ttl, t) ==
    IF ~client THEN [kind |-> "false", stored |-> FALSE, entry |-> NoEntry]
    ELSE IF write = "redis_error" THEN [kind |-> "raise", stored |-> FALSE, entry |-> NoEntry]
    ELSE [kind |-> "true", stored |-> TRUE,
          entry |-> [present |-> TRUE, data |-> [value EXCEPT !.cached_at = t],
                     cached_at |-> t, expires_at |-> t + ttl]]

(***************************************************************************)
(* The provider calls as the coordinator sees them.  An outcome is         *)
(* [kind, val]: kind "ok" (the call returned val), "raised" (it raised),   *)
(* or "timed_out" (future.result(timeout=...) gave up on it; parallel      *)
(* mode only).                                                             *)
(***************************************************************************)
Range(seq) == { seq[i] : i \in 1..Len(seq) }

\* a sanctions or web call without its try/except: a failure leaves the loop
unguarded_call(outcome, neutral) ==
    IF outcome.kind = "ok" THEN [abort |-> FALSE, result |-> outcome.val]
    ELSE [abort |-> TRUE, result |-> neutral]

\* try/except around one sanctions or web call (lines 111-115, 119-123,
\* 168-172, 178-182): the except branch stores the neutral result.
guarded_call(outcome, neutral) ==
    IF outcome.kind = "ok" THEN [abort |-> FALSE, result |-> outcome.val]
    ELSE [abort |-> FALSE, result |-> neutral]

\* AIService.summarize_search_results (ai_service.py lines 24-86): with no
\* search results it returns the fixed 'No search results' summary at once.
summarize_search_results(total_results, outcome) ==
    IF total_results = 0 THEN [kind |-> "ok", val |-> AINoResults] ELSE outcome

\* The AI call: line 131 (parallel, no try/except: an exception leaves
\* _assess_risk_parallel) and lines 190-194 (sequential, guarded).
ai_call(mode, outcome) ==
    IF outcome.kind = "ok" THEN [abort |-> FALSE, result |-> outcome.val]
    ELSE IF mode = "parallel" THEN [abort |-> TRUE, result |-> AIFailedSummary]
    ELSE [abort |-> FALSE, result |-> AIFailedSummary]

RECURSIVE total_web_results(_, _)
total_web_results(web_results, keys) ==
    IF keys = <<>> THEN 0
    ELSE web_results[Head(keys)].results + total_web_results(web_results, Tail(keys))

\* assess_risk line 74: parallel only for several entities in fast mode
select_mode(search_entities, fast) ==
    IF Len(search_entities) > 1 /\ fast THEN "parallel" ELSE "sequential"

(***************************************************************************)
(* Graph persistence.  Neo4jService._generate_entity_id: the type prefix   *)
(* and a digest of the lower-cased name.                                   *)
(***************************************************************************)
generate_entity_id(e, validated_data) ==
    [prefix |-> IF e = "company" THEN "company" ELSE "entity", name |-> validated_data[e].name]

\* the loop of lines 140-147 / 203-210: ids of the entities persisted, in
\* the order of search_entities; a failed create_or_update_entity adds none
RECURSIVE persist_entities(_, _, _)
persist_entities(keys, validated_data, persist_ok) ==
    IF keys = <<>> THEN <<>>
    ELSE (IF persist_ok[Head(keys)] THEN <<generate_entity_id(Head(keys), validated_data)>>
          ELSE <<>>)
         \o persist_entities(Tail(keys), validated_data, persist_ok)

NoId == [prefix |-> "none", name |-> ""]

\* relationship_analysis as initialised at lines 136 / 199
initial_relationship_analysis ==
    [created_relationships |-> <<>>, relationships_created |-> <<>>,
     director_relationships |-> <<>>, entity_associations |-> {}]

\* the relationship calls made with the last id persisted taken for the company
relationship_calls_positional(validated_data, entity_ids) ==
    LET both == validated_data.person.present /\ validated_data.company.present
        directors == validated_data.company.directors
    IN  [link |-> IF both /\ Len(entity_ids) >= 2
                    THEN <<[person_id |-> entity_ids[1], company_id |-> entity_ids[2]]>>
                    ELSE <<>>,
         directors |-> IF validated_data.company.present /\ Len(entity_ids) >= 1
                         THEN [i \in 1..Len(directors) |->
                                 [director_id |-> directors[i].director_id,
                                  company_id |-> entity_ids[Len(entity_ids)]]]
                         ELSE <<>>]

\* RiskService._handle_entity_relationships, the calls it makes on the graph
\* service and the ids it passes: create_person_company_relationship (lines
\* 423-428) and create_director_relationship (lines 441-456)
relationship_calls(validated_data, entity_ids) ==
    LET both == validated_data.person.present /\ validated_data.company.present
        company_id ==
            IF ~validated_data.company.present THEN NoId
            ELSE IF Len(entity_ids) >= 1 /\ ~validated_data.person.present THEN entity_ids[1]
            ELSE IF Len(entity_ids) >= 2 THEN entity_ids[2]
            ELSE NoId
        directors == validated_data.company.directors
    IN  [link |-> IF both /\ Len(entity_ids) >= 2
                    THEN <<[person_id |-> entity_ids[1], company_id |-> entity_ids[2]]>>
                    ELSE <<>>,
         directors |-> IF company_id # NoId
                         THEN [i \in 1..Len(directors) |->
                                 [director_id |-> directors[i].director_id,
                                  company_id |-> company_id]]
                         ELSE <<>>]

\* RiskService._handle_entity_relationships (lines 408-500).  The dict it
\* returns has the key 'relationships_created' and no key
\* 'created_relationships' (read back as [] by the scorer).
handle_entity_relationships(validated_data, entity_ids, link_ok, director_ok) ==
    LET made == relationship_calls(validated_data, entity_ids)
    IN  [created_relationships |-> <<>>,
         relationships_created |->
            IF link_ok
              THEN [i \in 1..Len(made.link) |->
                      [type |-> "person_company_association",
                       person_id |-> made.link[i].person_id,
                       company_id |-> made.link[i].company_id]]
              ELSE <<>>,
         director_relationships |-> IF director_ok THEN made.directors ELSE <<>>,
         entity_associations |-> Range(entity_ids)]

(***************************************************************************)
(* RiskService._build_final_response (lines 502-563), the fields of the    *)
(* result the model keeps.  The statuses are the literals of lines 737 and *)
(* 769.                                                                    *)
(***************************************************************************)
build_final_response(risk_calculation, fast) ==
    [risk_score |-> risk_calculation.risk_score,
     risk_level |-> risk_calculation.risk_level,
     risk_factors |-> risk_calculation.risk_factors,
     sanctions_status |-> "checked", web_status |-> "completed",
     performance_mode |-> IF fast THEN "parallel" ELSE "sequential",
     cached_at |-> -1]

(***************************************************************************)
(* One fresh assessment as a function of what the providers do: the body   *)
(* of _assess_risk_parallel (lines 84-158) and _assess_risk_sequential     *)
(* (lines 160-221) up to the score.  env gives the outcome of every call:  *)
(* env.sanctions[e], env.web[e], env.ai, env.persist_ok[e], env.link_ok,   *)
(* env.director_ok.                                                        *)
(***************************************************************************)
SourceCalls(keys) ==
    { <<"sanctions", e>> : e \in Range(keys) } \cup { <<"web", e>> : e \in Range(keys) }

GraphCalls(keys) ==
    { <<"persist", e>> : e \in Range(keys) } \cup { <<"relationships", "all">> }

fresh_assessment(data, fast, graph, env) ==
    LET keys == prepare_search_entities(data)
        mode == select_mode(keys, fast)
        sg == [e \in Range(keys) |-> guarded_call(env.sanctions[e], NeutralSanctions)]
        wg == [e \in Range(keys) |-> guarded_call(env.web[e], NeutralWeb)]
        s_results == [e \in Range(keys) |-> sg[e].result]
        w_results == [e \in Range(keys) |-> wg[e].result]
        total == total_web_results(w_results, keys)
        ai == ai_call(mode, summarize_search_results(total, env.ai))
        ids == IF graph THEN persist_entities(keys, data, env.persist_ok) ELSE <<>>
        rel == IF graph
                 THEN handle_entity_relationships(data, ids, env.link_ok, env.director_ok)
                 ELSE initial_relationship_analysis
        fan_abort == \E e \in Range(keys) : sg[e].abort \/ wg[e].abort
    IN  [abort |-> fan_abort \/ ai.abort,
         cause |-> IF fan_abort THEN "source" ELSE IF ai.abort THEN "ai" ELSE "none",
         keys |-> keys, mode |-> mode,
         sanctions_results |-> s_results, web_intelligence_results |-> w_results,
         ai_summary |-> ai.result, entity_ids |-> ids, relationship_analysis |-> rel,
         risk_calculation |-> calculate_risk_score(s_results, w_results, ai.result, rel, keys),
         calls |-> SourceCalls(keys)
                   \cup (IF fan_abort THEN {} ELSE { <<"ai", "all">> })
                   \cup (IF graph /\ ~fan_abort /\ ~ai.abort THEN GraphCalls(keys) ELSE {})]

(***************************************************************************)
(* What the providers can answer.                                          *)
(***************************************************************************)
SanctionsMatch ==
    [matched |-> TRUE, highest_confidence |-> 96, risk_score |-> 100,
     matches |-> <<[name |-> "alice", confidence |-> 96]>>, status |-> "checked"]
SanctionsNoMatch ==
    [matched |-> FALSE, highest_confidence |-> 0, risk_score |-> 0, matches |-> <<>>,
     status |-> "checked"]
WebRisky ==
    [results |-> 2, risk_indicators |-> <<"Sanctions indicators found">>, risk_score |-> 35,
     status |-> "completed"]
WebEmpty ==
    [results |-> 0, risk_indicators |-> <<>>, risk_score |-> 0, status |-> "completed"]
\* a summary completed by _ensure_complete_response: detailed_analysis is
\* its one dict-valued entry
AIComplete ==
    [risk_score |-> 60, nan |-> FALSE, confidence10 |-> 8, key_findings |-> <<"finding">>,
     dict_entries |-> 1, ai_provider |-> "OpenAI"]
\* the language model answered "risk_score": NaN, which json.loads accepts
\* and min(max(nan, 0), 100) lets through
AINaN == [AIComplete EXCEPT !.nan = TRUE]
\* the largest values the two providers can report: the web score is capped
\* at 100 (web_search_service line 323), the AI risk_score at 100 and its
\* confidence at 1.0 (ai_service lines 469-472)
WebSevere ==
    [results |-> 5, risk_indicators |-> <<"Criminal activity indicators found">>,
     risk_score |-> 100, status |-> "completed"]
AISevere == [AIComplete EXCEPT !.risk_score = 100, !.confidence10 = 10]

Ok(v) == [kind |-> "ok", val |-> v]
Raised(neutral) == [kind |-> "raised", val |-> neutral]
TimedOut(neutral) == [kind |-> "timed_out", val |-> neutral]

AIOutcomes == {Ok(AIComplete), Ok(AINaN), Raised(AIFailedSummary)}

(***************************************************************************)
(* State                                                                   *)
(***************************************************************************)
VARIABLES
    fast_mode,                \* RiskService.fast_mode
    neo4j_available,          \* RiskService.neo4j_available
    redis_client,             \* CacheManager.redis_client is not None
    store,                    \* the Redis store: cache key -> entry
    now,                      \* time.time(), in ticks
    served,                   \* assess_risk calls made so far
    pc,                       \* where the running assess_risk call is
    validated_data,           \* its argument
    idx,                      \* the position of its current loop in search_entities
    sanctions_futures,        \* parallel mode: the state of each submitted call
    web_futures,
    observed,                 \* what each provider call did, as collected
    sanctions_results,        \* the locals of _assess_risk_parallel / _sequential
    web_intelligence_results,
    ai_summary,
    entity_ids,
    relationship_analysis,
    risk_calculation,
    outcome,                  \* what the running / last call returned or raised
    calls,                    \* the adapter calls it made
    threads                   \* the concurrent assess_risk calls of the race

vars ==
    <<fast_mode, neo4j_available, redis_client, store, now, served, pc, validated_data, idx,
      sanctions_futures, web_futures, observed, sanctions_results, web_intelligence_results,
      ai_summary, entity_ids, relationship_analysis, risk_calculation, outcome, calls,
      threads>>

service_vars == <<fast_mode, neo4j_available, redis_client>>
local_vars ==
    <<validated_data, idx, sanctions_futures, web_futures, observed, sanctions_results,
      web_intelligence_results, ai_summary, entity_ids, relationship_analysis,
      risk_calculation>>

NoData == [person |-> NoPerson, company |-> NoCompany]
\* two calls of assess_risk running at once (one per server thread); each
\* holds the response it has built and what became of it
Threads == {1, 2}
NoThread == [pc |-> "none", response |-> NoResponse, kind |-> "none", wrote |-> FALSE]
NoThreads == [t \in Threads |-> NoThread]
NoOutcome ==
    [kind |-> "none", key |-> <<>>, response |-> NoResponse, cause |-> "none",
     fresh |-> FALSE, read |-> "none", write |-> "none"]
NoFutures == [e \in Ent |-> "none"]
NoObserved == [sanctions |-> <<>>, web |-> <<>>, ai |-> "none"]

LocalsInit ==
    /\ validated_data = NoData
    /\ idx = 0
    /\ sanctions_futures = NoFutures
    /\ web_futures = NoFutures
    /\ observed = NoObserved
    /\ sanctions_results = <<>>
    /\ web_intelligence_results = <<>>
    /\ ai_summary = AIFailedSummary
    /\ entity_ids = <<>>
    /\ relationship_analysis = initial_relationship_analysis
    /\ risk_calculation = error_default

\* RiskService.__init__ (lines 24-51) and CacheManager.__init__: the graph
\* store and the cache store are reachable or not; fast_mode starts False.
Init ==
    /\ fast_mode = FALSE
    /\ neo4j_available \in BOOLEAN
    /\ redis_client \in BOOLEAN
    /\ store = [k \in CacheKeys |-> NoEntry]
    /\ now = 0
    /\ served = 0
    /\ pc = "idle"
    /\ LocalsInit
    /\ outcome = NoOutcome
    /\ calls = {}
    /\ threads = NoThreads

(***************************************************************************)
(* The service, call by call.  AssessRisk is one whole assess_risk call    *)
(* (lines 53-82): the cache lookup, on a miss the fresh assessment, the    *)
(* response and the cache write; an exception anywhere leaves it as        *)
(* RisknetError.                                                           *)
(***************************************************************************)
\* In this specification the sanctions provider answers, and the web
\* provider answers or fails as a whole: every entity of the request gets
\* the same outcome from it.  (SpecFanout below draws the outcome of each
\* sanctions and web call on its own.)
Envs(data, fast) ==
    LET keys == prepare_search_entities(data)
    IN  { [sanctions |-> [e \in Range(keys) |-> Ok(SanctionsMatch)],
           web |-> [e \in Range(keys) |-> w],
           ai |-> a, persist_ok |-> [e \in Range(keys) |-> TRUE],
           link_ok |-> TRUE, director_ok |-> TRUE] :
          w \in {Ok(WebRisky), Raised(NeutralWeb)},
          a \in AIOutcomes }

Returned(key, response, is_fresh, read, write) ==
    [kind |-> "returned", key |-> key, response |-> response, cause |-> "none",
     fresh |-> is_fresh, read |-> read, write |-> write]

Failed(key, cause, read, write) ==
    [kind |-> "raised", key |-> key, response |-> NoResponse, cause |-> cause,
     fresh |-> TRUE, read |-> read, write |-> write]

\* the effect of CacheManager.get on the store: an entry found expired is deleted
AfterGet(key, got) == IF got.delete THEN [store EXCEPT ![key] = NoEntry] ELSE store

ReadKind(client, read) == IF client THEN read ELSE "no_client"
WriteKind(client, write) == IF client THEN write ELSE "no_client"

AssessRiskCached(data, read) ==
    /\ pc = "idle"
    /\ served < MaxRequests
    /\ \E key \in {generate_cache_key(data)} :
       \E got \in {cache_get(redis_client, read, store[key], now)} :
          /\ got.kind = "hit"
          /\ outcome' = Returned(key, got.data, FALSE, ReadKind(redis_client, read), "none")
          /\ calls' = {}
          /\ store' = AfterGet(key, got)
    /\ served' = served + 1
    /\ UNCHANGED <<threads, service_vars, now, pc, local_vars>>

AssessRiskFresh(data, read) ==
    /\ pc = "idle"
    /\ served < MaxRequests
    /\ \E key \in {generate_cache_key(data)} :
       \E got \in {cache_get(redis_client, read, store[key], now)} :
       \E rd \in {ReadKind(redis_client, read)} :
          /\ got.kind # "hit"
          /\ \E env \in Envs(data, fast_mode) :
             \E fresh \in {fresh_assessment(data, fast_mode, neo4j_available, env)} :
             \E response \in {build_final_response(fresh.risk_calculation, fast_mode)} :
             \E write \in IF redis_client THEN WriteOutcomes ELSE {"ok"} :
             \E put \in {cache_set(redis_client, write, response, CacheTTL, now)} :
             \E wr \in {WriteKind(redis_client, write)} :
                /\ calls' = IF got.kind = "raise" THEN {} ELSE fresh.calls
                /\ outcome' =
                      IF got.kind = "raise" THEN Failed(key, "cache_get", rd, "none")
                      ELSE IF fresh.abort THEN Failed(key, fresh.cause, rd, "none")
                      ELSE IF put.kind = "raise" THEN Failed(key, "cache_set", rd, wr)
                      ELSE Returned(key, response, TRUE, rd, wr)
                /\ store' = IF got.kind # "raise" /\ ~fresh.abort /\ put.stored
                              THEN [AfterGet(key, got) EXCEPT ![key] = put.entry]
                              ELSE AfterGet(key, got)
    /\ served' = served + 1
    /\ UNCHANGED <<threads, service_vars, now, pc, local_vars>>

\* what the store does on the read of a call: nothing to choose without a
\* connection
AssessRisk ==
    \E data \in Requests, read \in IF redis_client THEN ReadOutcomes ELSE {"ok"} :
        \/ AssessRiskCached(data, read)
        \/ AssessRiskFresh(data, read)

\* RiskService.set_fast_mode (lines 907-910), between two calls
SetFastMode ==
    /\ pc = "idle"
    /\ served < MaxRequests
    /\ fast_mode' = ~fast_mode
    /\ UNCHANGED <<threads, neo4j_available, redis_client, store, now, served, pc, local_vars,
                   outcome, calls>>

\* Time passes between two calls; Redis drops the entries whose expiry
\* time (setex) is reached.
Tick ==
    /\ pc = "idle"
    /\ served < MaxRequests
    /\ now < MaxTime
    /\ now' = now + 1
    /\ store' = [k \in CacheKeys |->
                    IF Visible(store[k], now + 1) THEN store[k] ELSE NoEntry]
    /\ UNCHANGED <<threads, service_vars, served, pc, local_vars, outcome, calls>>

Next == AssessRisk \/ SetFastMode \/ Tick

Spec == Init /\ [][Next]_vars

(***************************************************************************)
(* One assessment, step by step: _assess_risk_parallel (lines 84-158) and  *)
(* _assess_risk_sequential (lines 160-221) after assess_risk has missed    *)
(* the cache and chosen the mode (line 74).  The service of this           *)
(* specification has no cache connection (CacheManager.redis_client is     *)
(* None), so the lookup misses and the final set() returns False.          *)
(*                                                                         *)
(* A future is "none" (not submitted), "running", "returned" or "raised".  *)
(* future.result(timeout=...) on a finished future gives its result or     *)
(* re-raises; on a running one it waits, so the worker may finish first,   *)
(* or the deadline passes and it raises TimeoutError while the worker      *)
(* keeps running.  Leaving the `with ThreadPoolExecutor` block calls       *)
(* shutdown(wait=True): it returns when no submitted call is running.      *)
(***************************************************************************)
Keys == prepare_search_entities(validated_data)
Mode == select_mode(Keys, fast_mode)

\* the keys a results dict holds, in insertion order: what .items() and
\* .values() visit
Collected(results) == SelectSeq(EntityOrder, LAMBDA e : e \in DOMAIN results)

\* a loop left after its first pass
loop_done_early(i, keys) == i > 1

\* `for entity_key, ... in ....items()`: the loop body has run for every
\* entity (lines 110, 118, 140, 167, 177, 203)
loop_done(i, keys) == i > Len(keys)

\* what future.result(timeout=...) does on a future in state f whose call
\* returns val when it succeeds
future_result(f, val, neutral) ==
    IF f = "returned" THEN Ok(val)
    ELSE IF f = "raised" THEN Raised(neutral)
    ELSE TimedOut(neutral)

Pending(kind, cause, response) ==
    [kind |-> kind, key |-> generate_cache_key(validated_data), response |-> response,
     cause |-> cause, fresh |-> TRUE, read |-> "no_client",
     write |-> IF kind = "returning" THEN "no_client" ELSE "none"]

\* Neo4jService.max_retries
max_retries == 3

\* Neo4jService._connect_with_retry (lines 28-48) under RiskService.__init__
\* (lines 30-37): attempts[i] is whether the i-th attempt connects.  The
\* service is available when an attempt connects; when the last one fails
\* the constructor raises and __init__ sets neo4j_available to False.
connect_with_retry(attempts) == \E i \in 1..max_retries : attempts[i]

InitFanout ==
    /\ fast_mode \in BOOLEAN
    /\ neo4j_available \in { connect_with_retry(a) : a \in [1..max_retries -> BOOLEAN] }
    /\ redis_client = FALSE
    /\ store = [k \in CacheKeys |-> NoEntry]
    /\ now = 0
    /\ served = 0
    /\ validated_data \in Requests
    /\ pc = IF Mode = "parallel" THEN "submit" ELSE "sanctions"
    /\ idx = 1
    /\ sanctions_futures = NoFutures
    /\ web_futures = NoFutures
    /\ observed = NoObserved
    /\ sanctions_results = <<>>
    /\ web_intelligence_results = <<>>
    /\ ai_summary = AIFailedSummary
    /\ entity_ids = <<>>
    /\ relationship_analysis = initial_relationship_analysis
    /\ risk_calculation = error_default
    /\ outcome = NoOutcome
    /\ calls = {}
    /\ threads = NoThreads

cache_vars == <<redis_client, store, now, served>>
config_vars == <<fast_mode, neo4j_available, validated_data>>

\* lines 93-103: every sanctions and web call of the request is submitted
Submit ==
    /\ pc = "submit"
    /\ sanctions_futures' = [e \in Ent |-> IF e \in Range(Keys) THEN "running" ELSE "none"]
    /\ web_futures' = [e \in Ent |-> IF e \in Range(Keys) THEN "running" ELSE "none"]
    /\ calls' = SourceCalls(Keys)
    /\ pc' = "collect_sanctions"
    /\ idx' = 1
    /\ UNCHANGED <<threads, cache_vars, config_vars, observed, sanctions_results,
                   web_intelligence_results, ai_summary, entity_ids, relationship_analysis,
                   risk_calculation, outcome>>

\* a pool thread finishes check_entity / search_entity
SanctionsWorker ==
    \E e \in Ent, how \in {"returned", "raised"} :
        /\ sanctions_futures[e] = "running"
        /\ sanctions_futures' = [sanctions_futures EXCEPT ![e] = how]
        /\ UNCHANGED <<threads, cache_vars, config_vars, pc, idx, web_futures, observed,
                       sanctions_results, web_intelligence_results, ai_summary, entity_ids,
                       relationship_analysis, risk_calculation, outcome, calls>>

WebWorker ==
    \E e \in Ent, how \in {"returned", "raised"} :
        /\ web_futures[e] = "running"
        /\ web_futures' = [web_futures EXCEPT ![e] = how]
        /\ UNCHANGED <<threads, cache_vars, config_vars, pc, idx, sanctions_futures, observed,
                       sanctions_results, web_intelligence_results, ai_summary, entity_ids,
                       relationship_analysis, risk_calculation, outcome, calls>>

\* one pass of a sanctions loop body (lines 110-115 or 167-172) given what
\* the call did
SanctionsStep(e, o, next) ==
    \E got \in {guarded_call(o, NeutralSanctions)} :
        /\ sanctions_results' = (e :> got.result) @@ sanctions_results
        /\ observed' = [observed EXCEPT !.sanctions = (e :> o.kind) @@ @]
        /\ IF got.abort
             THEN /\ pc' = "exit"
                  /\ idx' = idx
                  /\ outcome' = Pending("raising", "source", NoResponse)
             ELSE /\ pc' = IF loop_done(idx + 1, Keys) THEN next ELSE pc
                  /\ idx' = IF loop_done(idx + 1, Keys) THEN 1 ELSE idx + 1
                  /\ outcome' = outcome

\* one pass of a web loop body (lines 118-123 or 177-182)
WebStep(e, o) ==
    \E got \in {guarded_call(o, NeutralWeb)} :
        /\ web_intelligence_results' = (e :> got.result) @@ web_intelligence_results
        /\ observed' = [observed EXCEPT !.web = (e :> o.kind) @@ @]
        /\ IF got.abort
             THEN /\ pc' = "exit"
                  /\ idx' = idx
                  /\ outcome' = Pending("raising", "source", NoResponse)
             ELSE /\ pc' = IF loop_done(idx + 1, Keys) THEN "ai" ELSE pc
                  /\ idx' = IF loop_done(idx + 1, Keys) THEN 1 ELSE idx + 1
                  /\ outcome' = outcome

CollectSanctions ==
    /\ pc = "collect_sanctions"
    /\ SanctionsStep(Keys[idx],
                     future_result(sanctions_futures[Keys[idx]], SanctionsMatch,
                                   NeutralSanctions),
                     "collect_web")
    /\ UNCHANGED <<threads, cache_vars, config_vars, sanctions_futures, web_futures,
                   web_intelligence_results, ai_summary, entity_ids, relationship_analysis,
                   risk_calculation, calls>>

CollectWeb ==
    /\ pc = "collect_web"
    /\ WebStep(Keys[idx], future_result(web_futures[Keys[idx]], WebRisky, NeutralWeb))
    /\ UNCHANGED <<threads, cache_vars, config_vars, sanctions_futures, web_futures,
                   sanctions_results, ai_summary, entity_ids, relationship_analysis,
                   risk_calculation, calls>>

CheckEntity ==
    /\ pc = "sanctions"
    /\ \E o \in {Ok(SanctionsMatch), Raised(NeutralSanctions)} :
          SanctionsStep(Keys[idx], o, "web")
    /\ calls' = calls \cup { <<"sanctions", Keys[idx]>> }
    /\ UNCHANGED <<threads, cache_vars, config_vars, sanctions_futures, web_futures,
                   web_intelligence_results, ai_summary, entity_ids, relationship_analysis,
                   risk_calculation>>

SearchEntity ==
    /\ pc = "web"
    /\ \E o \in {Ok(WebRisky), Raised(NeutralWeb)} : WebStep(Keys[idx], o)
    /\ calls' = calls \cup { <<"web", Keys[idx]>> }
    /\ UNCHANGED <<threads, cache_vars, config_vars, sanctions_futures, web_futures,
                   sanctions_results, ai_summary, entity_ids, relationship_analysis,
                   risk_calculation>>

\* lines 127-131 / 186-194
Summarize ==
    /\ pc = "ai"
    /\ \E o \in {Ok(AIComplete), Raised(AIFailedSummary)} :
       \E said \in {summarize_search_results(
                       total_web_results(web_intelligence_results,
                                         Collected(web_intelligence_results)), o)} :
       \E got \in {ai_call(Mode, said)} :
          /\ ai_summary' = got.result
          /\ observed' = [observed EXCEPT !.ai = IF said.val = AINoResults THEN "no_results"
                                                 ELSE said.kind]
          /\ pc' = IF got.abort THEN "exit"
                   ELSE IF neo4j_available THEN "persist" ELSE "score"
          /\ outcome' = IF got.abort THEN Pending("raising", "ai", NoResponse) ELSE outcome
    /\ calls' = calls \cup { <<"ai", "all">> }
    /\ UNCHANGED <<threads, cache_vars, config_vars, idx, sanctions_futures, web_futures,
                   sanctions_results, web_intelligence_results, entity_ids,
                   relationship_analysis, risk_calculation>>

\* one pass of the loop of lines 140-147 / 203-210
CreateOrUpdateEntity ==
    /\ pc = "persist"
    /\ \E ok \in BOOLEAN :
          entity_ids' = IF ok THEN Append(entity_ids,
                                          generate_entity_id(Keys[idx], validated_data))
                        ELSE entity_ids
    /\ calls' = calls \cup { <<"persist", Keys[idx]>> }
    /\ pc' = IF loop_done(idx + 1, Keys) THEN "relationships" ELSE pc
    /\ idx' = IF loop_done(idx + 1, Keys) THEN 1 ELSE idx + 1
    /\ UNCHANGED <<threads, cache_vars, config_vars, sanctions_futures, web_futures, observed,
                   sanctions_results, web_intelligence_results, ai_summary,
                   relationship_analysis, risk_calculation, outcome>>

\* lines 150 / 213
HandleEntityRelationships ==
    /\ pc = "relationships"
    /\ \E link_ok \in BOOLEAN, director_ok \in BOOLEAN :
          relationship_analysis' =
              handle_entity_relationships(validated_data, entity_ids, link_ok, director_ok)
    /\ \E made \in {relationship_calls(validated_data, entity_ids)} :
          calls' = calls \cup { <<"relationships", "all">> }
                         \cup { <<"link", made.link[i]>> : i \in 1..Len(made.link) }
                         \cup { <<"director", made.directors[i]>> :
                                  i \in 1..Len(made.directors) }
    /\ pc' = "score"
    /\ UNCHANGED <<threads, cache_vars, config_vars, idx, sanctions_futures, web_futures, observed,
                   sanctions_results, web_intelligence_results, ai_summary, entity_ids,
                   risk_calculation, outcome>>

\* lines 154-158 / 217-221: the score, the response, the cache write
CalculateRiskScore ==
    /\ pc = "score"
    /\ \E rc \in {calculate_risk_score(sanctions_results, web_intelligence_results,
                                       ai_summary, relationship_analysis,
                                       Collected(sanctions_results))} :
       \E response \in {build_final_response(rc, fast_mode)} :
       \E put \in {cache_set(redis_client, "ok", response, CacheTTL, now)} :
          /\ risk_calculation' = rc
          /\ outcome' = IF put.kind = "raise" THEN Pending("raising", "cache_set", NoResponse)
                        ELSE Pending("returning", "none", response)
    /\ pc' = "exit"
    /\ UNCHANGED <<threads, cache_vars, config_vars, idx, sanctions_futures, web_futures, observed,
                   sanctions_results, web_intelligence_results, ai_summary, entity_ids,
                   relationship_analysis, calls>>

\* the end of the `with` block (parallel mode) and of assess_risk: the
\* result goes to the caller, an exception as RisknetError (lines 80-82)
Return ==
    /\ pc = "exit"
    /\ \A e \in Ent : sanctions_futures[e] # "running" /\ web_futures[e] # "running"
    /\ outcome' = [outcome EXCEPT !.kind = IF @ = "returning" THEN "returned" ELSE "raised"]
    /\ pc' = "done"
    /\ UNCHANGED <<threads, cache_vars, config_vars, idx, sanctions_futures, web_futures, observed,
                   sanctions_results, web_intelligence_results, ai_summary, entity_ids,
                   relationship_analysis, risk_calculation, calls>>

NextFanout ==
    \/ Submit
    \/ SanctionsWorker
    \/ WebWorker
    \/ CollectSanctions
    \/ CollectWeb
    \/ CheckEntity
    \/ SearchEntity
    \/ Summarize
    \/ CreateOrUpdateEntity
    \/ HandleEntityRelationships
    \/ CalculateRiskScore
    \/ Return

SpecFanout == InitFanout /\ [][NextFanout]_vars

(***************************************************************************)
(* The aggregator alone: _calculate_risk_score applied to provider results *)
(* drawn from the providers' interface (a sanctions result is any          *)
(* {matched, highest_confidence, risk_score, matches}; the scorer reads    *)
(* nothing else of it).                                                    *)
(***************************************************************************)
CalcScores == {0, 59, 60, 75, 79, 80, 93, 94, 100}
CalcConfidences == {0, 70, 84, 85, 94, 95, 96, 97, 100}

SanctionsAnswer(matched, confidence, score) ==
    [matched |-> matched, highest_confidence |-> confidence, risk_score |-> score,
     matches |-> IF matched THEN <<[name |-> "alice", confidence |-> confidence]>> ELSE <<>>,
     status |-> "checked"]

PersonSanctions ==
    { SanctionsAnswer(m, c, r) : m \in BOOLEAN, c \in CalcConfidences, r \in CalcScores }

CompanySanctions ==
    { NeutralSanctions, SanctionsNoMatch, SanctionsAnswer(TRUE, 90, 65), SanctionsMatch }

SanctionsInputs(keys) ==
    { [e \in Range(keys) |-> IF e = "person" THEN p ELSE c] :
        p \in PersonSanctions, c \in CompanySanctions }

WebInputs(keys) == [Range(keys) -> {WebRisky, WebEmpty, WebSevere, NeutralWeb}]

InitCalc ==
    /\ fast_mode = FALSE
    /\ neo4j_available = FALSE
    /\ redis_client = FALSE
    /\ store = [k \in CacheKeys |-> NoEntry]
    /\ now = 0
    /\ served = 0
    /\ pc = "score"
    /\ validated_data \in Requests
    /\ idx = 1
    /\ sanctions_futures = NoFutures
    /\ web_futures = NoFutures
    /\ observed = NoObserved
    /\ sanctions_results \in SanctionsInputs(Keys)
    /\ web_intelligence_results \in WebInputs(Keys)
    /\ ai_summary \in {AIComplete, AISevere, AIFailedSummary, AINoResults, AINaN}
    /\ entity_ids = <<>>
    /\ relationship_analysis = initial_relationship_analysis
    /\ risk_calculation = error_default
    /\ outcome = NoOutcome
    /\ calls = {}
    /\ threads = NoThreads

NextCalc == CalculateRiskScore

SpecCalc == InitCalc /\ [][NextCalc]_vars

(***************************************************************************)
(* The cache key alone: _generate_cache_key applied to validated requests. *)
(* The validator strips the fields and normalises the country, and keeps   *)
(* names and registration numbers in the letter case they were sent in     *)
(* (utils/validation.py lines 95-101, 143-154).                            *)
(***************************************************************************)
KeyPersons ==
    { [present |-> TRUE, name |-> n, email |-> m, phone |-> p, country |-> c] :
        n \in {"alice", "Alice"}, m \in {"", "a@x.org"}, p \in {"", "+1 555"},
        c \in {"", "US"} }

KeyCompanies ==
    { [present |-> TRUE, name |-> n, registration_number |-> r, country |-> c,
       directors |-> <<>>] :
        n \in {"acme", "ACME", "alice"}, r \in {"", "rc1", "RC1"}, c \in {"", "US"} }

KeyRequests ==
    { [person |-> p, company |-> c] :
        p \in KeyPersons \cup {NoPerson}, c \in KeyCompanies \cup {NoCompany} }
    \ { [person |-> NoPerson, company |-> NoCompany] }

InitKey ==
    /\ fast_mode = FALSE
    /\ neo4j_available = FALSE
    /\ redis_client = FALSE
    /\ store = [k \in CacheKeys |-> NoEntry]
    /\ now = 0
    /\ served = 0
    /\ pc = "key"
    /\ validated_data \in KeyRequests
    /\ idx = 0
    /\ sanctions_futures = NoFutures
    /\ web_futures = NoFutures
    /\ observed = NoObserved
    /\ sanctions_results = <<>>
    /\ web_intelligence_results = <<>>
    /\ ai_summary = AIFailedSummary
    /\ entity_ids = <<>>
    /\ relationship_analysis = initial_relationship_analysis
    /\ risk_calculation = error_default
    /\ outcome = NoOutcome
    /\ calls = {}
    /\ threads = NoThreads

\* assess_risk line 60: cache_key = self._generate_cache_key(validated_data)
GenerateCacheKey ==
    /\ pc = "key"
    /\ pc' = "keyed"
    /\ outcome' = [outcome EXCEPT !.key = generate_cache_key(validated_data)]
    /\ UNCHANGED <<threads, service_vars, store, now, served, local_vars, calls>>

NextKey == GenerateCacheKey

SpecKey == InitKey /\ [][NextKey]_vars

(***************************************************************************)
(* Two assess_risk calls for the same request running at once, on a key    *)
(* the cache does not hold.  The steps they interleave at are the two      *)
(* Redis commands: the GET of CacheManager.get (assess_risk line 61) and   *)
(* the SETEX of CacheManager.set (_build_final_response line 558), each    *)
(* executed by the server as one command; the fan-out between them works   *)
(* on the call's own locals.  No lock is taken anywhere.                   *)
(***************************************************************************)
RaceKey == generate_cache_key(validated_data)

InitRace ==
    /\ fast_mode \in BOOLEAN
    /\ neo4j_available = FALSE
    /\ redis_client = TRUE
    /\ store = [k \in CacheKeys |-> NoEntry]
    /\ now = 0
    /\ served = 0
    /\ pc = "race"
    /\ validated_data \in Requests
    /\ idx = 0
    /\ sanctions_futures = NoFutures
    /\ web_futures = NoFutures
    /\ observed = NoObserved
    /\ sanctions_results = <<>>
    /\ web_intelligence_results = <<>>
    /\ ai_summary = AIFailedSummary
    /\ entity_ids = <<>>
    /\ relationship_analysis = initial_relationship_analysis
    /\ risk_calculation = error_default
    /\ outcome = NoOutcome
    /\ calls = {}
    /\ threads = [t \in Threads |-> [NoThread EXCEPT !.pc = "get"]]

race_unchanged ==
    <<service_vars, now, served, pc, local_vars, calls>>

\* assess_risk lines 60-65: the lookup; a hit is returned at once
RaceGet(t) ==
    /\ threads[t].pc = "get"
    /\ \E read \in ReadOutcomes :
       \E got \in {cache_get(redis_client, read, store[RaceKey], now)} :
          /\ threads' = [threads EXCEPT ![t] =
                IF got.kind = "hit"
                  THEN [pc |-> "done", response |-> got.data, kind |-> "hit", wrote |-> FALSE]
                  ELSE [@ EXCEPT !.pc = "assess"]]
          /\ store' = AfterGet(RaceKey, got)
    /\ UNCHANGED <<race_unchanged, outcome>>

\* lines 67-78 up to the response being built: the fan-out, on locals only
RaceAssess(t) ==
    /\ threads[t].pc = "assess"
    /\ \E env \in Envs(validated_data, fast_mode) :
       \E fresh \in {fresh_assessment(validated_data, fast_mode, neo4j_available, env)} :
          threads' = [threads EXCEPT ![t] =
              IF fresh.abort
                THEN [@ EXCEPT !.pc = "done", !.kind = "raised"]
                ELSE [@ EXCEPT !.pc = "set",
                               !.response = build_final_response(fresh.risk_calculation,
                                                                 fast_mode)]]
    /\ UNCHANGED <<race_unchanged, store, outcome>>

\* _build_final_response lines 557-563: the write, then the return
RaceSet(t) ==
    /\ threads[t].pc = "set"
    /\ \E write \in WriteOutcomes :
       \E put \in {cache_set(redis_client, write, threads[t].response, CacheTTL, now)} :
          /\ threads' = [threads EXCEPT ![t] =
                [@ EXCEPT !.pc = "done", !.wrote = put.stored,
                          !.kind = IF put.kind = "raise" THEN "raised" ELSE "fresh"]]
          /\ store' = IF put.stored THEN [store EXCEPT ![RaceKey] = put.entry] ELSE store
          /\ outcome' = IF put.stored
                          THEN Returned(RaceKey, put.entry.data, TRUE, "none", "ok")
                          ELSE outcome
    /\ UNCHANGED race_unchanged

NextRace == \E t \in Threads : RaceGet(t) \/ RaceAssess(t) \/ RaceSet(t)

SpecRace == InitRace /\ [][NextRace]_vars

(***************************************************************************)
(* utils/risk_calculator.py: the legacy RiskCalculator, which the service  *)
(* does not call.  Scores are floats in [0, 1]; here a score is a rational *)
(* [num, den] in units of 10^-5 (num / den = score * 10^5), so the sums    *)
(* and the comparisons with the thresholds are exact.  A match's topics    *)
(* are kept as the priority of the first CRIME_DOMAINS entry whose name    *)
(* they contain and the stage of the first CRIME_STAGES entry ("none" when *)
(* there is none); an indicator likewise as the priority of its domain.    *)
(***************************************************************************)
\* self.priority_weights and self.stage_weights (lines 31-44), in tenths;
\* the multipliers of lines 143 and 149 are 1.0 + weight
priority_weights(priority) ==
    IF priority = "P0" THEN 10
    ELSE IF priority = "P1" THEN 8
    ELSE IF priority = "P2" THEN 6
    ELSE 4

stage_weights(stage) ==
    IF stage = "Stage 1" THEN 4
    ELSE IF stage = "Stage 2" THEN 6
    ELSE IF stage = "Stage 3" THEN 8
    ELSE 10

\* lines 134-151: the risk of one match, in units of 10^-5, capped at 1.0
match_risk(match) ==
    LET domain_factor == IF match.priority = "none" THEN 10
                         ELSE 10 + priority_weights(match.priority)
        stage_factor == IF match.stage = "none" THEN 10
                        ELSE 10 + stage_weights(match.stage)
    IN  Min(match.confidence * 10 * domain_factor * stage_factor, 100000)

RECURSIVE max_match_risk(_)
max_match_risk(matches) ==
    IF matches = <<>> THEN 0
    ELSE Max(match_risk(Head(matches)), max_match_risk(Tail(matches)))

RECURSIVE legacy_sanctions_fold(_, _)
legacy_sanctions_fold(sanctions_by_entity, keys) ==
    IF keys = <<>> THEN [max_risk |-> 0, total_matches |-> 0]
    ELSE LET rest == legacy_sanctions_fold(sanctions_by_entity, Tail(keys))
             result == sanctions_by_entity[Head(keys)]
         IN  IF ~result.matched THEN rest
             ELSE [max_risk |-> Max(rest.max_risk, max_match_risk(result.matches)),
                   total_matches |-> rest.total_matches + Len(result.matches)]

\* RiskCalculator._calculate_sanctions_risk (lines 119-159), in units of 10^-5
calculate_sanctions_risk(sanctions_by_entity, keys) ==
    LET folded == legacy_sanctions_fold(sanctions_by_entity, keys)
    IN  IF folded.total_matches > 1
          THEN Min((folded.max_risk * 11) \div 10, 100000)
          ELSE folded.max_risk

\* lines 169-178: the indicators of one entity, in tenths of an indicator
RECURSIVE indicator_weight(_)
indicator_weight(indicators) ==
    IF indicators = <<>> THEN 0
    ELSE 10 + (IF Head(indicators) = "none" THEN 0 ELSE priority_weights(Head(indicators)))
         + indicator_weight(Tail(indicators))

RECURSIVE legacy_web_fold(_, _)
legacy_web_fold(web_results, keys) ==
    IF keys = <<>> THEN [indicators10 |-> 0, sentiment10 |-> 0, sentiments |-> 0]
    ELSE LET rest == legacy_web_fold(web_results, Tail(keys))
             result == web_results[Head(keys)]
         IN  [indicators10 |-> rest.indicators10 + indicator_weight(result.risk_indicators),
              sentiment10 |-> rest.sentiment10 + result.sentiment10,
              sentiments |-> rest.sentiments + (IF result.sentiment10 # 0 THEN 1 ELSE 0)]

\* RiskCalculator._calculate_web_intelligence_risk (lines 161-194): the
\* rational [num, den] in units of 10^-5
calculate_web_intelligence_risk(web_results, keys) ==
    LET folded == legacy_web_fold(web_results, keys)
        den == IF folded.sentiments > 0 THEN folded.sentiments ELSE 1
        indicator_risk == Min(folded.indicators10 * 1000, 70000)
        sentiment_risk == IF folded.sentiments > 0
                            THEN Max(0, (0 - folded.sentiment10) * 3000)
                            ELSE 0
    IN  [num |-> Min(indicator_risk * den + sentiment_risk, 100000 * den), den |-> den]

RECURSIVE legacy_graph_fold(_, _)
legacy_graph_fold(graph_results, keys) ==
    IF keys = <<>> THEN [total_connections |-> 0, total_risk_connections |-> 0]
    ELSE LET rest == legacy_graph_fold(graph_results, Tail(keys))
             analysis == graph_results[Head(keys)]
         IN  [total_connections |-> rest.total_connections + analysis.connection_count,
              total_risk_connections |->
                  rest.total_risk_connections + analysis.risk_connections]

\* RiskCalculator._calculate_graph_risk (lines 196-217)
calculate_graph_risk(graph_results, keys) ==
    LET folded == legacy_graph_fold(graph_results, keys)
        total == folded.total_connections
        connection_factor == Min(total * 2000, 30000)
    IN  IF total = 0 THEN [num |-> 0, den |-> 1]
        ELSE [num |-> Min(70000 * folded.total_risk_connections + connection_factor * total,
                          100000 * total),
              den |-> total]

\* the comparison of a rational score with a threshold given in thousandths
AtLeast(score, threshold) == score.num >= threshold * 100 * score.den

\* RiskCalculator._determine_risk_level (lines 219-230) with
\* self.risk_thresholds (lines 22-28)
determine_risk_level(score) ==
    IF AtLeast(score, 900) THEN "very_high"
    ELSE IF AtLeast(score, 700) THEN "high"
    ELSE IF AtLeast(score, 500) THEN "medium"
    ELSE IF AtLeast(score, 300) THEN "low"
    ELSE "very_low"

\* RiskCalculator.calculate_comprehensive_risk (lines 56-117) with
\* self.risk_weights (lines 14-19, in hundredths) and the AI placeholder 0.5.
\* The level is taken from overall_risk, the score returned is
\* round(overall_risk, 3), here in thousandths.
calculate_comprehensive_risk(sanctions_by_entity, web_results, graph_results, keys) ==
    LET sanctions_score == calculate_sanctions_risk(sanctions_by_entity, keys)
        web_intel_score == calculate_web_intelligence_risk(web_results, keys)
        graph_score == calculate_graph_risk(graph_results, keys)
        overall_risk ==
            [num |-> 35 * sanctions_score * web_intel_score.den * graph_score.den
                     + 35 * web_intel_score.num * graph_score.den
                     + 20 * graph_score.num * web_intel_score.den
                     + 10 * 50000 * web_intel_score.den * graph_score.den,
             den |-> 100 * web_intel_score.den * graph_score.den]
    IN  [risk_score |-> py_round(overall_risk.num, 100 * overall_risk.den),
         risk_level |-> determine_risk_level(overall_risk),
         overall_risk |-> overall_risk]

\* RiskCalculator.calculate_risk (lines 46-54): one entity under the key 'entity'
calculate_risk(sanctions_result, web_intelligence, graph_analysis) ==
    calculate_comprehensive_risk([e \in {"entity"} |-> sanctions_result],
                                 [e \in {"entity"} |-> web_intelligence],
                                 [e \in {"entity"} |-> graph_analysis], <<"entity">>)

\* inputs of the calculator
LegacyMatches ==
    { [confidence |-> c, priority |-> p, stage |-> g] :
        c \in {0, 45, 100}, p \in {"none", "P0", "P3"}, g \in {"none", "Stage 4"} }

LegacySanctions ==
    {[matched |-> FALSE, matches |-> <<>>], [matched |-> TRUE, matches |-> <<>>]}
    \cup { [matched |-> TRUE, matches |-> <<m>>] : m \in LegacyMatches }
    \cup { [matched |-> TRUE, matches |-> <<m, m>>] : m \in LegacyMatches }

LegacyWeb ==
    { [risk_indicators |-> i, sentiment10 |-> t] :
        i \in { <<>>, <<"P0">>, <<"none", "none", "none">>,
                <<"none", "none", "none", "none", "none", "none">>,
                <<"none", "none", "none", "none", "none", "none", "none">> },
        t \in {-10, -6, 0, 5} }

LegacyGraph ==
    { [connection_count |-> 0, risk_connections |-> 0],
      [connection_count |-> 10, risk_connections |-> 3],
      [connection_count |-> 25, risk_connections |-> 16],
      [connection_count |-> 5, risk_connections |-> 9] }

LegacyKeys(results) ==
    IF "entity" \in DOMAIN results THEN <<"entity">> ELSE <<"company1", "person1">>

LegacyEntities == { {"entity"}, {"company1", "person1"} }

InitLegacy ==
    /\ fast_mode = FALSE
    /\ neo4j_available = FALSE
    /\ redis_client = FALSE
    /\ store = [k \in CacheKeys |-> NoEntry]
    /\ now = 0
    /\ served = 0
    /\ pc = "legacy"
    /\ validated_data = NoData
    /\ idx = 0
    /\ sanctions_futures = NoFutures
    /\ web_futures = NoFutures
    /\ observed = NoObserved
    /\ \E entities \in LegacyEntities :
          /\ sanctions_results \in
                { [e \in entities |-> IF e = "company1" THEN c ELSE x] :
                    x \in LegacySanctions,
                    c \in {[matched |-> FALSE, matches |-> <<>>],
                           [matched |-> TRUE,
                            matches |-> <<[confidence |-> 90, priority |-> "P0",
                                           stage |-> "Stage 4"]>>]} }
          /\ web_intelligence_results \in
                { [e \in entities |-> IF e = "company1" THEN c ELSE x] :
                    x \in LegacyWeb,
                    c \in {[risk_indicators |-> <<"none", "P0">>, sentiment10 |-> -4]} }
          /\ relationship_analysis \in
                { [e \in entities |-> IF e = "company1" THEN c ELSE x] :
                    x \in LegacyGraph,
                    c \in {[connection_count |-> 15, risk_connections |-> 5]} }
    /\ ai_summary = AIFailedSummary
    /\ entity_ids = <<>>
    /\ risk_calculation = error_default
    /\ outcome = NoOutcome
    /\ calls = {}
    /\ threads = NoThreads

legacy_unchanged ==
    <<service_vars, store, now, served, validated_data, idx, sanctions_futures, web_futures,
      observed, sanctions_results, web_intelligence_results, ai_summary, entity_ids,
      relationship_analysis, outcome, calls, threads>>

\* the legacy entry point, for a single entity
CalculateRisk ==
    /\ pc = "legacy"
    /\ DOMAIN sanctions_results = {"entity"}
    /\ risk_calculation' = calculate_risk(sanctions_results["entity"],
                                          web_intelligence_results["entity"],
                                          relationship_analysis["entity"])
    /\ pc' = "legacy_done"
    /\ UNCHANGED legacy_unchanged

CalculateComprehensiveRisk ==
    /\ pc = "legacy"
    /\ DOMAIN sanctions_results # {"entity"}
    /\ risk_calculation' =
          calculate_comprehensive_risk(sanctions_results, web_intelligence_results,
                                       relationship_analysis, LegacyKeys(sanctions_results))
    /\ pc' = "legacy_done"
    /\ UNCHANGED legacy_unchanged

NextLegacy == CalculateRisk \/ CalculateComprehensiveRisk

SpecLegacy == InitLegacy /\ [][NextLegacy]_vars

(***************************************************************************)
(* utils/cache.py on its own: set() with the default or an explicit TTL,   *)
(* get(), and the passing of time.  served holds the time of the last      *)
(* successful set and idx the TTL it gave to setex (0 before any set).     *)
(***************************************************************************)
\* the ttl argument left out: ttl: Optional[int] = None (line 85)
NoTTL == -1

\* line 111
ttl_to_use(ttl) == IF ttl # NoTTL THEN ttl ELSE CacheTTL

\* the TTLs a caller passes: none, one shorter and one longer than the default
GivenTTLs == {NoTTL, CacheTTL - 1, CacheTTL + 2}

\* the last time of a run of the cache alone
CacheHorizon == CacheTTL + 3

InitCache ==
    /\ fast_mode \in BOOLEAN
    /\ neo4j_available = FALSE
    /\ redis_client = TRUE
    /\ store = [k \in CacheKeys |-> NoEntry]
    /\ now = 0
    /\ served = 0
    /\ pc = "cache"
    /\ validated_data \in Requests
    /\ idx = 0
    /\ sanctions_futures = NoFutures
    /\ web_futures = NoFutures
    /\ observed = NoObserved
    /\ sanctions_results = <<>>
    /\ web_intelligence_results = <<>>
    /\ ai_summary = AIFailedSummary
    /\ entity_ids = <<>>
    /\ relationship_analysis = initial_relationship_analysis
    /\ risk_calculation = error_default
    /\ outcome = NoOutcome
    /\ calls = {}
    /\ threads = NoThreads

cache_unchanged ==
    <<service_vars, validated_data, sanctions_futures, web_futures, observed,
      sanctions_results, web_intelligence_results, ai_summary, entity_ids,
      relationship_analysis, risk_calculation, calls, threads>>

CacheSet ==
    /\ pc \in {"cache", "got"}
    /\ \E ttl \in GivenTTLs, write \in WriteOutcomes :
          LET put == cache_set(redis_client, write,
                               build_final_response(risk_calculation, fast_mode),
                               ttl_to_use(ttl), now)
          IN  /\ store' = IF put.stored THEN [store EXCEPT ![RaceKey] = put.entry] ELSE store
              /\ served' = IF put.stored THEN now ELSE served
              /\ idx' = IF put.stored THEN ttl_to_use(ttl) ELSE idx
              /\ outcome' = [NoOutcome EXCEPT !.kind = put.kind, !.write = write]
    /\ pc' = "cache"
    /\ UNCHANGED <<now, cache_unchanged>>

CacheGet ==
    /\ pc \in {"cache", "got"}
    /\ \E read \in ReadOutcomes :
          LET got == cache_get(redis_client, read, store[RaceKey], now)
          IN  /\ store' = IF got.delete THEN [store EXCEPT ![RaceKey] = NoEntry] ELSE store
              /\ outcome' = [NoOutcome EXCEPT !.kind = got.kind, !.response = got.data,
                                              !.read = read]
    /\ pc' = "got"
    /\ UNCHANGED <<now, served, idx, cache_unchanged>>

\* time passes; Redis drops the entries whose setex expiry is reached
CacheTick ==
    /\ pc \in {"cache", "got"}
    /\ now < CacheHorizon
    /\ now' = now + 1
    /\ store' = [k \in CacheKeys |->
                    IF Visible(store[k], now + 1) THEN store[k] ELSE NoEntry]
    /\ pc' = "cache"
    /\ UNCHANGED <<served, idx, outcome, cache_unchanged>>

NextCache == CacheSet \/ CacheGet \/ CacheTick

SpecCache == InitCache /\ [][NextCache]_vars

(***************************************************************************)
(* services/web_search_service.py: what search_entity makes of the search  *)
(* results.  A raw result is [keywords, trusted]: the risk keywords its     *)
(* title and snippet contain and whether its source is a trusted one.      *)
(***************************************************************************)
\* the indicators of the categories of risk_keywords (lines 251-259, 266), in
\* the dict's order
RiskIndicators ==
    <<"Sanctions indicators found", "Criminal indicators found",
      "Investigation indicators found", "Money Laundering indicators found",
      "Terrorism indicators found", "Corruption indicators found",
      "Regulatory indicators found">>

\* one keyword of a category each: "sanctions", "fraud" (criminal), "probe"
\* (investigation), "bribery" (corruption)
keyword_indicator(keyword) ==
    IF keyword = "sanctions" THEN "Sanctions indicators found"
    ELSE IF keyword = "fraud" THEN "Criminal indicators found"
    ELSE IF keyword = "probe" THEN "Investigation indicators found"
    ELSE "Corruption indicators found"

\* WebSearchService._analyze_risk_indicators (lines 248-270): the indicators
\* found, each once, in the order they are first met
RECURSIVE analyze_risk_indicators(_, _)
analyze_risk_indicators(results, found) ==
    IF results = <<>> THEN found
    ELSE LET matched(c) == /\ \E k \in Head(results).keywords : keyword_indicator(k) = c
                           /\ \A i \in 1..Len(found) : found[i] # c
         IN  analyze_risk_indicators(Tail(results),
                                     found \o SelectSeq(RiskIndicators, matched))

\* lines 317-321: high_risk_keywords; of the keywords above only "sanctions"
high_risk_results(results) ==
    Cardinality({ i \in 1..Len(results) : "sanctions" \in results[i].keywords })

\* WebSearchService._calculate_risk_score (lines 302-323)
web_risk_score(results, risk_indicators) ==
    IF results = <<>> THEN 0
    ELSE Min(100, Len(risk_indicators) * 15
                  + Cardinality({ i \in 1..Len(results) : results[i].trusted }) * 10
                  + high_risk_results(results) * 20)

\* WebSearchService.search_entity (lines 48-116), from the results on
web_search_entity(results) ==
    IF results = <<>> THEN WebEmpty
    ELSE LET risk_indicators == analyze_risk_indicators(results, <<>>)
         IN  [results |-> Len(results), risk_indicators |-> risk_indicators,
              risk_score |-> web_risk_score(results, risk_indicators),
              status |-> "completed"]

\* the search results of one entity
RawResults ==
    [keywords : SUBSET {"sanctions", "fraud", "probe", "bribery"}, trusted : BOOLEAN]

InitWeb ==
    /\ fast_mode = FALSE
    /\ neo4j_available = FALSE
    /\ redis_client = FALSE
    /\ store = [k \in CacheKeys |-> NoEntry]
    /\ now = 0
    /\ served = 0
    /\ pc = "web_search"
    /\ validated_data = [person |-> Alice, company |-> NoCompany]
    /\ idx = 1
    /\ sanctions_futures = NoFutures
    /\ web_futures = NoFutures
    /\ observed \in {<<>>} \cup { <<r>> : r \in RawResults }
                           \cup { <<r, q>> : r \in RawResults, q \in RawResults }
    /\ sanctions_results \in [Range(Keys) -> {SanctionsNoMatch, SanctionsMatch}]
    /\ web_intelligence_results = <<>>
    /\ ai_summary \in {AIFailedSummary, AIComplete}
    /\ entity_ids = <<>>
    /\ relationship_analysis = initial_relationship_analysis
    /\ risk_calculation = error_default
    /\ outcome = NoOutcome
    /\ calls = {}
    /\ threads = NoThreads

\* the web search of the entities (lines 108-124 / 178-187), all with the
\* same search results
SearchEntityWeb ==
    /\ pc = "web_search"
    /\ web_intelligence_results' = [e \in Range(Keys) |-> web_search_entity(observed)]
    /\ pc' = "score"
    /\ UNCHANGED <<threads, cache_vars, config_vars, idx, sanctions_futures, web_futures,
                   observed, sanctions_results, ai_summary, entity_ids,
                   relationship_analysis, risk_calculation, outcome, calls>>

NextWeb == SearchEntityWeb \/ CalculateRiskScore

SpecWeb == InitWeb /\ [][NextWeb]_vars

(***************************************************************************)
(* Properties                                                              *)
(***************************************************************************)
Levels == {"very_low", "low", "medium", "high", "very_high"}

\* the level intervals as the specification words them
LevelOfInterval(score) ==
    IF score < 25 THEN "very_low"
    ELSE IF score <= 39 THEN "low"
    ELSE IF score <= 59 THEN "medium"
    ELSE IF score <= 74 THEN "high"
    ELSE "very_high"

SameVerdict(a, b) ==
    /\ a.risk_score = b.risk_score
    /\ a.risk_level = b.risk_level
    /\ a.risk_factors = b.risk_factors

CallFailed(kind) == kind \in {"raised", "timed_out"}

\* C1: every assessment assess_risk completes returns an integer risk_score
\* in 0..100 and the risk_level whose interval contains it, one of the five
\* levels and no other value.
C1ScoreAndLevel ==
    outcome.kind = "returned" =>
        /\ outcome.response.risk_score \in 0..100
        /\ outcome.response.risk_level \in Levels
        /\ outcome.response.risk_level = LevelOfInterval(outcome.response.risk_score)

\* C2: with the cache store reachable, a call whose key holds an unexpired
\* entry is answered from it with no adapter call; a fresh result that is
\* written is stored under its key as it was returned; so two calls in a row
\* with the same entity fields within the TTL return the same score, level
\* and factors, the second one calling no adapter.
C2Idempotent ==
    [][ served' = served + 1 =>
          /\ (redis_client /\ outcome'.read = "ok" /\ Visible(store[outcome'.key], now)) =>
                /\ outcome'.kind = "returned"
                /\ ~outcome'.fresh
                /\ SameVerdict(outcome'.response, store[outcome'.key].data)
                /\ calls' = {}
          /\ (outcome'.kind = "returned" /\ outcome'.fresh /\ outcome'.write = "ok") =>
                /\ Visible(store'[outcome'.key], now)
                /\ store'[outcome'.key].expires_at = now + CacheTTL
                /\ SameVerdict(store'[outcome'.key].data, outcome'.response)
          /\ (/\ outcome.kind = "returned"
              /\ outcome.write = "ok" \/ ~outcome.fresh
              /\ outcome'.key = outcome.key
              /\ Visible(store[outcome.key], now)
              /\ redis_client
              /\ outcome'.read = "ok") =>
                /\ outcome'.kind = "returned"
                /\ SameVerdict(outcome'.response, outcome.response)
                /\ calls' = {}
      ]_vars

\* a second call was answered from the cache
C2SecondCallServed ==
    /\ served = 2
    /\ outcome.kind = "returned"
    /\ ~outcome.fresh
    /\ outcome.read = "ok"
    /\ calls = {}

\* C5: a cache write that fails (no connection, or the store raising during
\* the write) does not fail the assessment: the fresh result is returned.
C5WriteBestEffort ==
    (outcome.fresh /\ outcome.write \in {"no_client", "redis_error"}) =>
        outcome.kind = "returned"

\* C6: a cache read that cannot be served (no connection, the store raising,
\* an undecodable value) is a miss: the call is not failed by it and goes on
\* to a fresh computation, calling the sources of every entity.
C6ReadNeverFails ==
    outcome.read \in {"no_client", "redis_error", "undecodable"} =>
        /\ outcome.fresh
        /\ outcome.cause # "cache_get"
        /\ \E d \in Requests :
              /\ generate_cache_key(d) = outcome.key
              /\ SourceCalls(prepare_search_entities(d)) \subseteq calls

\* a call whose cache read raised, on a connected store, returned a fresh result
C6ReadFailedServedFresh ==
    /\ redis_client
    /\ outcome.read = "redis_error"
    /\ outcome.kind = "returned"
    /\ outcome.fresh
    /\ outcome.write = "ok"

PastCollection == pc \in {"ai", "persist", "relationships", "score", "exit", "done"}

ScoreComputed == pc \in {"exit", "done"} /\ outcome.cause = "none"

\* every sanctions and web result held is the provider's answer when the
\* call returned, and the neutral result when it raised or timed out
ResultsAsObserved ==
    /\ DOMAIN observed.sanctions = DOMAIN sanctions_results
    /\ DOMAIN observed.web = DOMAIN web_intelligence_results
    /\ \A e \in DOMAIN sanctions_results :
          sanctions_results[e] =
              IF observed.sanctions[e] = "ok" THEN SanctionsMatch ELSE NeutralSanctions
    /\ \A e \in DOMAIN web_intelligence_results :
          web_intelligence_results[e] =
              IF observed.web[e] = "ok" THEN WebRisky ELSE NeutralWeb

AllCollected ==
    /\ DOMAIN sanctions_results = Range(Keys)
    /\ DOMAIN web_intelligence_results = Range(Keys)

\* C3: in both modes a sanctions or web call that raises or times out is
\* replaced by the neutral result and never aborts the assessment: every
\* other call of the request is still made, its result is held and enters
\* the score, and the assessment returns unless something other than a
\* source fails.
C3FailureIsolated ==
    /\ ResultsAsObserved
    /\ outcome.cause # "source"
    /\ PastCollection => AllCollected /\ SourceCalls(Keys) \subseteq calls
    /\ ScoreComputed =>
          /\ risk_calculation.component_scores.sanctions =
                IF \E e \in Range(Keys) : observed.sanctions[e] = "ok"
                  THEN SanctionsMatch.risk_score ELSE 0
          /\ risk_calculation.component_scores.web_intelligence.num =
                WebRisky.risk_score * Cardinality({e \in Range(Keys) : observed.web[e] = "ok"})
    /\ (pc = "done" /\ observed.ai # "raised") => outcome.kind = "returned"

\* a two-entity assessment returned although one sanctions call raised and
\* one web call timed out, the two other calls having answered
C3OneCallFailedOthersUsed ==
    /\ pc = "done"
    /\ outcome.kind = "returned"
    /\ Range(Keys) = Ent
    /\ observed.sanctions["person"] = "raised"
    /\ observed.sanctions["company"] = "ok"
    /\ observed.web["person"] = "ok"
    /\ observed.web["company"] = "timed_out"
    /\ risk_calculation.component_scores.sanctions = SanctionsMatch.risk_score

WebUnavailable ==
    AllCollected /\ \A e \in Range(Keys) : CallFailed(observed.web[e])

\* C4: when web search and the AI summarizer fail, in either mode, the
\* assessment still returns a result; when no web call answered and the
\* summarizer gave no analysis, web and AI contribute 0 to the score and no
\* factor comes from web_search or ai_analysis.
C4Degradation ==
    /\ (/\ pc = "done"
        /\ \E e \in Range(Keys) : CallFailed(observed.web[e])
        /\ observed.ai \in {"raised", "no_results"}) => outcome.kind = "returned"
    /\ (pc = "done" /\ WebUnavailable /\ outcome.kind = "returned") =>
          /\ risk_calculation.component_scores.web_intelligence.num = 0
          /\ risk_calculation.component_scores.ai_analysis.num = 0
          /\ \A i \in DOMAIN risk_calculation.risk_factors :
                risk_calculation.risk_factors[i].source \notin {"web_search", "ai_analysis"}

\* C7: in parallel mode a call that exceeds its deadline is replaced by the
\* neutral result, and once the response is built assess_risk returns it
\* without waiting for a call that is still running.
C7TimeoutsDoNotBlock ==
    /\ \A e \in DOMAIN observed.sanctions :
          observed.sanctions[e] = "timed_out" => sanctions_results[e] = NeutralSanctions
    /\ \A e \in DOMAIN observed.web :
          observed.web[e] = "timed_out" => web_intelligence_results[e] = NeutralWeb
    /\ pc = "exit" => ENABLED Return

PersistenceFirst ==
    <<"relationships", "all">> \in calls =>
        \A e \in Range(Keys) : <<"persist", e>> \in calls

ScoreFromCollected == ScoreComputed => AllCollected /\ ResultsAsObserved

\* C8 as stated: the AI summarizer is invoked only after the web call of
\* every entity has completed (returned or raised); relationship analysis
\* only after the persistence call of every entity; the score only from the
\* collected results.
C8StrictOrdering ==
    /\ <<"ai", "all">> \in calls =>
          \A e \in Range(Keys) :
              /\ <<"web", e>> \in calls
              /\ e \in DOMAIN web_intelligence_results
              /\ web_futures[e] # "running"
    /\ PersistenceFirst
    /\ ScoreFromCollected

\* C8: the AI summarizer is invoked only after the web call of every entity
\* has completed or has been given up at its deadline and replaced by the
\* neutral result; relationship analysis only after the persistence call of
\* every entity; the score only from the collected results.
C8Ordering ==
    /\ <<"ai", "all">> \in calls =>
          \A e \in Range(Keys) :
              /\ <<"web", e>> \in calls
              /\ e \in DOMAIN web_intelligence_results
              /\ web_futures[e] = "running" =>
                    /\ observed.web[e] = "timed_out"
                    /\ web_intelligence_results[e] = NeutralWeb
    /\ PersistenceFirst
    /\ ScoreFromCollected

\* relationship analysis has run in an assessment whose AI call was made
\* while a web call, given up at its deadline, was still running
C8SummarizedPastDeadline ==
    /\ <<"ai", "all">> \in calls
    /\ <<"relationships", "all">> \in calls
    /\ ScoreComputed
    /\ \E e \in Range(Keys) : observed.web[e] = "timed_out" /\ web_futures[e] = "running"

\* the profiles as the specification lists them, in hundredths
ProfileOf(s) ==
    IF s >= 80
      THEN [sanctions |-> 80, web_intelligence |-> 15, ai_analysis |-> 3, relationships |-> 2]
    ELSE IF s >= 60 /\ s < 80
      THEN [sanctions |-> 70, web_intelligence |-> 20, ai_analysis |-> 7, relationships |-> 3]
    ELSE [sanctions |-> 40, web_intelligence |-> 30, ai_analysis |-> 20, relationships |-> 10]

\* C9: the weights of a scored assessment are the profile its sanctions
\* contribution s selects (s >= 80, 60 <= s < 80, s < 60) and sum to 1.
C9WeightSelection ==
    (ScoreComputed /\ ~risk_calculation.error) =>
        /\ risk_calculation.weights =
              ProfileOf(risk_calculation.component_scores.sanctions)
        /\ total_weight(risk_calculation.weights) = 100

\* a sanctions contribution of exactly 80 was scored with the 0.80 profile
C9BoundaryEscalated ==
    /\ ScoreComputed
    /\ ~risk_calculation.error
    /\ risk_calculation.component_scores.sanctions = 80
    /\ risk_calculation.weights.sanctions = 80

\* the floor as the specification words it; 0 stands for no floor
FloorOf(result) ==
    IF result.matched /\ result.highest_confidence >= 95 THEN 80
    ELSE IF result.matched /\ result.highest_confidence >= 85
            /\ result.highest_confidence < 95 THEN 70
    ELSE 0

\* C10: the sanctions value of an entity is max(provider risk_score, floor),
\* never below the provider's score and never raised for an unmatched
\* result; the sanctions contribution is the maximum over the entities.
C10SanctionsFloor ==
    (ScoreComputed /\ ~risk_calculation.error) =>
        /\ \A e \in Range(Keys) :
              /\ sanctions_results[e].risk_score <= risk_calculation.component_scores.sanctions
              /\ Max(sanctions_results[e].risk_score, FloorOf(sanctions_results[e]))
                    <= risk_calculation.component_scores.sanctions
        /\ \E e \in Range(Keys) :
              risk_calculation.component_scores.sanctions =
                  Max(sanctions_results[e].risk_score, FloorOf(sanctions_results[e]))
        /\ (\A e \in Range(Keys) : ~sanctions_results[e].matched) =>
              \E e \in Range(Keys) :
                  risk_calculation.component_scores.sanctions = sanctions_results[e].risk_score

\* a single matched entity with confidence 95 and provider score 59 was
\* scored with a sanctions contribution of 80
C10FloorRaised ==
    /\ ScoreComputed
    /\ ~risk_calculation.error
    /\ Keys = <<"person">>
    /\ sanctions_results["person"].matched
    /\ sanctions_results["person"].highest_confidence = 95
    /\ sanctions_results["person"].risk_score = 59
    /\ risk_calculation.component_scores.sanctions = 80

(***************************************************************************)
(* C11: monotonicity in the sanctions confidence.  For a matched entity,   *)
(* with the provider's risk_score, the web results, the AI summary and the *)
(* relationship results held fixed, the score computed with highest        *)
(* confidence 96 is never below the score computed with highest            *)
(* confidence 70.                                                          *)
(***************************************************************************)
SetConfidence(results, e, confidence) ==
    [results EXCEPT ![e].highest_confidence = confidence]

ScoreAtConfidence(e, confidence) ==
    calculate_risk_score(SetConfidence(sanctions_results, e, confidence),
                         web_intelligence_results, ai_summary,
                         relationship_analysis, Keys)

RaisedEntities ==
    { e \in Range(Keys) : /\ sanctions_results[e].matched
                          /\ sanctions_results[e].highest_confidence = 96 }

C11Monotone ==
    (ScoreComputed /\ ~risk_calculation.error) =>
        \A e \in RaisedEntities :
            /\ ~ScoreAtConfidence(e, 70).error
            /\ risk_calculation.risk_score >= ScoreAtConfidence(e, 70).risk_score

\* the person's confidence 96 lifted a provider score of 59 over the floor
\* and the final score is strictly above the one computed at confidence 70
C11RaisedByConfidence ==
    /\ ScoreComputed /\ ~risk_calculation.error
    /\ "person" \in RaisedEntities
    /\ sanctions_results["person"].risk_score = 59
    /\ web_intelligence_results["person"] = WebSevere
    /\ ai_summary = AISevere
    /\ risk_calculation.risk_score > ScoreAtConfidence("person", 70).risk_score

(***************************************************************************)
(* C12: a high-confidence sanctions hit alone.  SanctionsAlone is the      *)
(* scored assessment of a single entity, matched at highest confidence 97, *)
(* whose web result is empty and whose AI summary is the failure or the    *)
(* no-results summary.                                                     *)
(***************************************************************************)
SanctionsAlone ==
    /\ ScoreComputed /\ ~risk_calculation.error
    /\ Keys = <<"person">>
    /\ sanctions_results["person"].matched
    /\ sanctions_results["person"].highest_confidence = 97
    /\ web_intelligence_results["person"] \in {WebEmpty, NeutralWeb}
    /\ ai_summary \in {AIFailedSummary, AINoResults}
    /\ risk_calculation.component_scores.relationships = 0

HighProfile ==
    [sanctions |-> 80, web_intelligence |-> 15, ai_analysis |-> 3, relationships |-> 2]

NoSourceYieldsFactor ==
    /\ \A e \in Range(Keys) : /\ sanctions_results[e].matches = <<>>
                              /\ web_intelligence_results[e].risk_indicators = <<>>
    /\ ai_summary.key_findings = <<>>
    /\ Len(relationship_analysis.created_relationships) <= ComplexRelationships

IsSyntheticFactor(factor) ==
    factor.description = <<"no significant risk indicators found">>

EveryContributionZero ==
    /\ risk_calculation.component_scores.sanctions = 0
    /\ risk_calculation.component_scores.web_intelligence.num = 0
    /\ risk_calculation.component_scores.ai_analysis.num = 0
    /\ risk_calculation.component_scores.relationships = 0

C13FactorsNeverEmpty ==
    (ScoreComputed /\ ~risk_calculation.error) =>
        /\ risk_calculation.risk_factors # <<>>
        /\ NoSourceYieldsFactor =>
              /\ Len(risk_calculation.risk_factors) = 1
              /\ IsSyntheticFactor(risk_calculation.risk_factors[1])
              /\ EveryContributionZero =>
                    /\ risk_calculation.risk_score = 0
                    /\ risk_calculation.risk_level = "very_low"

(***************************************************************************)
(* C14: deduplication.  In the risk_factors of a scored assessment no two  *)
(* entries have the same (source, description) pair, and for every factor  *)
(* the sources produced the list holds an entry of that pair whose         *)
(* confidence is at least as high.                                         *)
(***************************************************************************)
SamePair(f, g) == f.source = g.source /\ f.description = g.description

ProducedFactors ==
    collect_risk_factors(sanctions_results, web_intelligence_results, ai_summary,
                         relationship_analysis, Keys)

C14NoDuplicateFactors ==
    (ScoreComputed /\ ~risk_calculation.error) =>
        LET factors == risk_calculation.risk_factors
        IN  /\ \A i, j \in 1..Len(factors) : SamePair(factors[i], factors[j]) => i = j
            /\ \A k \in 1..Len(ProducedFactors) :
                  \E i \in 1..Len(factors) :
                      /\ SamePair(factors[i], ProducedFactors[k])
                      /\ factors[i].confidence100 >= ProducedFactors[k].confidence100

(***************************************************************************)
(* C15: an aggregation failure is surfaced.  No call returns, and no cache *)
(* entry holds, the result _calculate_risk_score substitutes when its own  *)
(* computation fails (the default score 0 of its except branch).           *)
(***************************************************************************)
Defaulted(response) ==
    /\ response.risk_score = error_default.risk_score
    /\ response.risk_level = error_default.risk_level

C15FailureSurfaced ==
    /\ outcome.kind = "returned" => ~Defaulted(outcome.response)
    /\ \A k \in CacheKeys : store[k].present => ~Defaulted(store[k].data)

(***************************************************************************)
(* C16: per-source status.  In a returned result the status of a source    *)
(* all of whose calls raised or timed out (and were replaced by the        *)
(* neutral result) differs from the status reported when the source was    *)
(* checked successfully: 'checked' for sanctions, 'completed' for web.     *)
(***************************************************************************)
StatusOfSuccess == build_final_response(error_default, fast_mode)

AllCallsFailed(kinds) ==
    /\ DOMAIN kinds = Range(Keys)
    /\ \A e \in DOMAIN kinds : CallFailed(kinds[e])

C16StatusDistinguishes ==
    (pc = "done" /\ outcome.kind = "returned") =>
        /\ AllCallsFailed(observed.sanctions) =>
              outcome.response.sanctions_status # StatusOfSuccess.sanctions_status
        /\ AllCallsFailed(observed.web) =>
              outcome.response.web_status # StatusOfSuccess.web_status

(***************************************************************************)
(* C17: fingerprint stability.  The key generated for a request is the key *)
(* of every request whose entities carry the same identity fields up to    *)
(* letter case (the order in which fields are supplied is not part of a    *)
(* dict's value), and generating it again gives the same key.              *)
(***************************************************************************)
Lower(text) ==
    IF text = "Alice" THEN "alice"
    ELSE IF text = "ACME" THEN "acme"
    ELSE IF text = "RC1" THEN "rc1"
    ELSE IF text = "US" THEN "us"
    ELSE text

LowerPerson(person) ==
    [person EXCEPT !.name = Lower(@), !.email = Lower(@), !.phone = Lower(@),
                   !.country = Lower(@)]

LowerCompany(company) ==
    [company EXCEPT !.name = Lower(@), !.registration_number = Lower(@),
                    !.country = Lower(@)]

SameUpToCase(a, b) ==
    /\ LowerPerson(a.person) = LowerPerson(b.person)
    /\ LowerCompany(a.company) = LowerCompany(b.company)

C17FingerprintStable ==
    pc = "keyed" =>
        /\ outcome.key = generate_cache_key(validated_data)
        /\ \A other \in KeyRequests :
              SameUpToCase(other, validated_data) => generate_cache_key(other) = outcome.key

(***************************************************************************)
(* C18: two concurrent calls on one uncached key.  Whatever the            *)
(* interleaving, the entry of the key is absent or is the complete         *)
(* response of the call that wrote last, as that call built it (with the   *)
(* time of the write); a call answered from the cache got the complete     *)
(* response some call wrote, never a mixture; and a write replaces the     *)
(* entry whole.                                                            *)
(***************************************************************************)
Stamped(response) == [response EXCEPT !.cached_at = now]

Writers == { t \in Threads : threads[t].wrote }

C18LastWriteWins ==
    /\ \A k \in CacheKeys :
          store[k].present =>
              /\ k = RaceKey
              /\ outcome.kind = "returned" /\ store[k].data = outcome.response
              /\ \E t \in Writers : store[k].data = Stamped(threads[t].response)
    /\ \A t \in Threads :
          threads[t].kind = "hit" =>
              \E u \in Writers \ {t} : threads[t].response = Stamped(threads[u].response)

\* both calls missed, both ran the fan-out and both wrote; their responses
\* differ and the entry is the one written last
C18BothWrote ==
    /\ \A t \in Threads : threads[t].pc = "done" /\ threads[t].kind = "fresh" /\ threads[t].wrote
    /\ threads[1].response # threads[2].response
    /\ store[RaceKey].present
    /\ store[RaceKey].data = Stamped(threads[2].response)

(***************************************************************************)
(* C19: mode equivalence.  A finished two-entity assessment in which no    *)
(* call timed out ends as the other mode ends when every provider call     *)
(* does the same thing (returns the same value or raises): both return or  *)
(* both fail, and when they return, with the same risk_score, risk_level,  *)
(* risk_factors and per-source results.                                    *)
(***************************************************************************)
NoTimeout ==
    /\ \A e \in DOMAIN observed.sanctions : observed.sanctions[e] # "timed_out"
    /\ \A e \in DOMAIN observed.web : observed.web[e] # "timed_out"

SameOutcomes ==
    [sanctions |-> [e \in Range(Keys) |->
                      IF observed.sanctions[e] = "ok" THEN Ok(SanctionsMatch)
                      ELSE Raised(NeutralSanctions)],
     web |-> [e \in Range(Keys) |->
                IF observed.web[e] = "ok" THEN Ok(WebRisky) ELSE Raised(NeutralWeb)],
     ai |-> IF observed.ai = "raised" THEN Raised(AIFailedSummary) ELSE Ok(AIComplete),
     persist_ok |-> [e \in Range(Keys) |-> TRUE],
     link_ok |-> TRUE, director_ok |-> TRUE]

OtherMode == fresh_assessment(validated_data, ~fast_mode, neo4j_available, SameOutcomes)

C19ModeEquivalence ==
    (pc = "done" /\ Len(Keys) = 2 /\ AllCollected /\ NoTimeout) =>
        /\ (outcome.kind = "returned") = ~OtherMode.abort
        /\ outcome.kind = "returned" =>
              /\ SameVerdict(outcome.response, OtherMode.risk_calculation)
              /\ sanctions_results = OtherMode.sanctions_results
              /\ web_intelligence_results = OtherMode.web_intelligence_results

(***************************************************************************)
(* C20: the AI contribution.  In a scored assessment the AI component is   *)
(* the summary's risk_score, whatever confidence and detailed_analysis the *)
(* summary carries (0 for the failure summary), and the final score is the *)
(* weighted sum in which that value has the selected profile's AI weight.  *)
(***************************************************************************)
ReportedAI == [num |-> ai_summary.risk_score, den |-> 1, nan |-> FALSE]

C20AIContribution ==
    (ScoreComputed /\ ~risk_calculation.error) =>
        LET component == risk_calculation.component_scores
            ai == component.ai_analysis
        IN  /\ ai.num = ai_summary.risk_score * ai.den
            /\ risk_calculation.risk_score =
                  clamp_score(final_score(component.sanctions, component.web_intelligence,
                                          ReportedAI, component.relationships,
                                          risk_calculation.weights))

(***************************************************************************)
(* C21: the relationship contribution.  In a scored assessment with the    *)
(* graph store available, in which _handle_entity_relationships created K *)
(* relationships (the person-company link and the director relationships), *)
(* the relationships component of the weighted sum is 5 * K, capped at 100.*)
(***************************************************************************)
RelationshipsMade ==
    Len(relationship_analysis.relationships_created)
        + Len(relationship_analysis.director_relationships)

C21RelationshipContribution ==
    (ScoreComputed /\ ~risk_calculation.error /\ neo4j_available) =>
        risk_calculation.component_scores.relationships =
            Min(RelationshipIncrement * RelationshipsMade, 100)

(***************************************************************************)
(* C22: every factor of a returned risk_factors list has a confidence in   *)
(* [0, 1] (0..100 in hundredths) and a severity among low, medium, high:   *)
(* high for a sanctions factor, medium for a web or an AI factor.          *)
(***************************************************************************)
WellFormedFactor(factor) ==
    /\ factor.confidence100 \in 0..100
    /\ factor.severity \in {"low", "medium", "high"}
    /\ factor.source = "sanctions" => factor.severity = "high"
    /\ factor.source \in {"web_search", "ai_analysis"} => factor.severity = "medium"

C22FactorsWellFormed ==
    outcome.kind = "returned" =>
        \A i \in 1..Len(outcome.response.risk_factors) :
            WellFormedFactor(outcome.response.risk_factors[i])

(***************************************************************************)
(* C23: the legacy calculator's range.  Every result of calculate_risk and *)
(* calculate_comprehensive_risk has a risk_score in [0, 1] (0..1000 in     *)
(* thousandths) and the risk_level that the thresholds 0.3, 0.5, 0.7, 0.9  *)
(* give for that risk_score.                                               *)
(***************************************************************************)
LegacyLevelOf(score1000) ==
    IF score1000 >= 900 THEN "very_high"
    ELSE IF score1000 >= 700 THEN "high"
    ELSE IF score1000 >= 500 THEN "medium"
    ELSE IF score1000 >= 300 THEN "low"
    ELSE "very_low"

C23LegacyRange ==
    pc = "legacy_done" =>
        /\ risk_calculation.risk_score \in 0..1000
        /\ risk_calculation.risk_level \in Levels
        /\ risk_calculation.risk_level = LegacyLevelOf(risk_calculation.risk_score)

(***************************************************************************)
(* C24: cache expiry.  After a successful set with any TTL (the default or *)
(* an explicit one, shorter or longer than the default), a get that        *)
(* reaches the store returns the stored result while the entry is younger  *)
(* than that TTL, and misses once it is older; after a miss on an expired  *)
(* entry the entry is gone.                                                *)
(***************************************************************************)
StoredResult ==
    [build_final_response(risk_calculation, fast_mode) EXCEPT !.cached_at = served]

C24CacheExpiry ==
    [][(pc' = "got" /\ outcome'.read = "ok" /\ idx > 0) =>
          /\ now - served < idx =>
                outcome'.kind = "hit" /\ outcome'.response = StoredResult
          /\ now - served > idx =>
                outcome'.kind = "miss" /\ ~store'[RaceKey].present]_vars

(***************************************************************************)
(* C25: the web-only scenario.  With no sanctions match, exactly three     *)
(* web risk-indicator categories, no AI contribution and no relationships, *)
(* the default profile is selected and the risk_level is low or medium,    *)
(* whatever score the web provider computes for the three categories.      *)
(***************************************************************************)
WebOnlyScenario ==
    /\ \A e \in DOMAIN sanctions_results : ~sanctions_results[e].matched
    /\ \A e \in DOMAIN web_intelligence_results :
          Len(web_intelligence_results[e].risk_indicators) = 3
    /\ ai_summary = AIFailedSummary
    /\ RelationshipsMade = 0

C25WebOnly ==
    (ScoreComputed /\ WebOnlyScenario) =>
        /\ risk_calculation.weights = select_weights(0)
        /\ risk_calculation.risk_level \in {"low", "medium"}

(***************************************************************************)
(* C26: cache keys do not collide.  The key generated for a request is the *)
(* key of no different request: not of one that carries the same value on  *)
(* the other entity (a person named X, a company named X), nor of one that *)
(* carries it in another field.                                            *)
(***************************************************************************)
C26KeysDistinct ==
    pc = "keyed" =>
        \A other \in KeyRequests :
            other # validated_data => generate_cache_key(other) # outcome.key

(***************************************************************************)
(* C27: degraded results are cached like any other.  A fresh result that   *)
(* is the aggregator's error default, or that was computed with the web    *)
(* source replaced by the neutral result, is stored under its key as it    *)
(* was built when the write succeeds; and while such an entry is unexpired *)
(* a call on its key that reads the store is answered with the entry, no   *)
(* source being called.                                                    *)
(***************************************************************************)
\* every web call that answers reports an indicator, so a result without a
\* web factor was computed from the neutral web result or is the default
DegradedResult(response) ==
    \/ Defaulted(response)
    \/ \A i \in 1..Len(response.risk_factors) : response.risk_factors[i].source # "web_search"

C27DegradedCached ==
    [][ served' = served + 1 =>
          /\ (/\ outcome'.kind = "returned"
              /\ outcome'.fresh
              /\ outcome'.write = "ok"
              /\ DegradedResult(outcome'.response)) =>
                store'[outcome'.key] =
                    [present |-> TRUE,
                     data |-> [outcome'.response EXCEPT !.cached_at = now],
                     cached_at |-> now, expires_at |-> now + CacheTTL]
          /\ (/\ redis_client
              /\ outcome'.read = "ok"
              /\ Visible(store[outcome'.key], now)
              /\ DegradedResult(store[outcome'.key].data)) =>
                /\ outcome'.kind = "returned"
                /\ ~outcome'.fresh
                /\ outcome'.response = store[outcome'.key].data
                /\ calls' = {} ]_vars

\* a second call was answered from the cache with the error default
C27DefaultServedAgain ==
    /\ served = 2
    /\ outcome.kind = "returned"
    /\ ~outcome.fresh
    /\ Defaulted(outcome.response)
    /\ calls = {}

(***************************************************************************)
(* C28: sanctions dominance.  With the web results, the AI summary and the *)
(* relationship results held fixed, the score computed from a larger       *)
(* sanctions contribution is never below the score computed from a         *)
(* smaller one, the steps from 59 to 60 and from 79 to 80, where the       *)
(* weight profile changes, included.  The other contributions range over   *)
(* what the service computes from its providers: web up to 100, AI up to   *)
(* 50.5, relationships 0.                                                  *)
(***************************************************************************)
SetScore(results, e, score) == [results EXCEPT ![e].risk_score = score]

ScoreAtScore(e, score) ==
    calculate_risk_score(SetScore(sanctions_results, e, score),
                         web_intelligence_results, ai_summary,
                         relationship_analysis, Keys)

C28SanctionsDominance ==
    (ScoreComputed /\ ~risk_calculation.error) =>
        \A e \in Range(Keys) : \A score \in CalcScores :
            LET other == ScoreAtScore(e, score)
            IN  other.component_scores.sanctions <= risk_calculation.component_scores.sanctions
                    => other.risk_score <= risk_calculation.risk_score

\* a sanctions contribution of 60 under the largest web and AI contributions:
\* the profile is not the one of 59, and the score is above the score at 59
C28BoundaryCrossed ==
    /\ ScoreComputed /\ ~risk_calculation.error
    /\ Keys = <<"person">>
    /\ risk_calculation.component_scores.sanctions = 60
    /\ web_intelligence_results["person"] = WebSevere
    /\ ai_summary = AISevere
    /\ risk_calculation.weights # ScoreAtScore("person", 59).weights
    /\ ScoreAtScore("person", 59).component_scores.sanctions = 59
    /\ risk_calculation.risk_score > ScoreAtScore("person", 59).risk_score

(***************************************************************************)
(* C29: graph identifiers are never mixed up.  Whichever calls of          *)
(* create_or_update_entity failed, every create_person_company_relationship *)
(* and create_director_relationship call gets as company the id returned   *)
(* for the company and as person the id returned for the person, and a     *)
(* person-company link is called for, and recorded, only when both         *)
(* entities were persisted.                                                *)
(***************************************************************************)
Persisted(e) ==
    /\ validated_data[e].present
    /\ generate_entity_id(e, validated_data) \in Range(entity_ids)

C29IdsNotMixed ==
    /\ \A c \in calls :
          /\ c[1] = "link" =>
                /\ Persisted("person") /\ Persisted("company")
                /\ c[2].person_id = generate_entity_id("person", validated_data)
                /\ c[2].company_id = generate_entity_id("company", validated_data)
          /\ c[1] = "director" =>
                /\ Persisted("company")
                /\ c[2].company_id = generate_entity_id("company", validated_data)
    /\ \A i \in 1..Len(relationship_analysis.relationships_created) :
          /\ Persisted("person") /\ Persisted("company")
          /\ relationship_analysis.relationships_created[i].person_id =
                generate_entity_id("person", validated_data)
          /\ relationship_analysis.relationships_created[i].company_id =
                generate_entity_id("company", validated_data)
    /\ \A i \in 1..Len(relationship_analysis.director_relationships) :
          relationship_analysis.director_relationships[i].company_id =
              generate_entity_id("company", validated_data)

\* both entities persisted: the link and the director call got the two ids,
\* and the link call failed
C29BothCallsMade ==
    /\ <<"link", [person_id |-> generate_entity_id("person", validated_data),
                  company_id |-> generate_entity_id("company", validated_data)]>> \in calls
    /\ <<"director", [director_id |-> "d1",
                      company_id |-> generate_entity_id("company", validated_data)]>> \in calls
    /\ relationship_analysis.relationships_created = <<>>

(***************************************************************************)
(* C30: graph-store failures never abort an assessment.  When the store    *)
(* could not be reached at construction no graph call is made; when        *)
(* persisting an entity or creating a relationship fails, the assessment   *)
(* goes on and returns a result; and the relationships contribution of the *)
(* result is computed from the relationships that were created.            *)
(***************************************************************************)
IsGraphCall(c) == c[1] \in {"persist", "relationships", "link", "director"}

C30NoCallWhenUnavailable == ~neo4j_available => \A c \in calls : ~IsGraphCall(c)

C30FailuresContained ==
    (pc = "done" /\ \E c \in calls : IsGraphCall(c)) => outcome.kind = "returned"

C30GraphFailuresContained ==
    /\ C30NoCallWhenUnavailable
    /\ C30FailuresContained
    /\ (ScoreComputed /\ ~risk_calculation.error) =>
          risk_calculation.component_scores.relationships =
              Min(RelationshipIncrement * RelationshipsMade, 100)


=============================================================================
